---- MODULE Spec2Model ----
(***************************************************************************)
(* Coordination core of skeenode: the scheduler replicas (dispatch tick,   *)
(* reconcile tick, retry engine), the executors, the Postgres store, the   *)
(* Redis stream queue and the etcd election / node registry.               *)
(*                                                                         *)
(* Time is counted in seconds.  The clock advances in steps of one         *)
(* reconcile interval (30 s); the 10 s dispatch ticker may fire any number *)
(* of times inside one such step.                                          *)
(***************************************************************************)
EXTENDS Integers, Sequences, FiniteSets, TLC

\* ---------------------------------------------------------------- bounds
MaxTicks  == 3      \* clock steps of ReconcileInterval seconds
MaxExecs  == 4      \* executions created by the retry engine and the API stop here
MaxFaults == 1      \* transient infrastructure errors injected in one behaviour
MaxApiCalls == 1    \* trigger / cancel requests served in one behaviour

\* ------------------------------------------------------ program constants
ReconcileInterval == 30     \* seconds, reconcileTicker
LookBack          == 120    \* seconds, RetryFailures window
FailureLimit      == 20     \* ListRecentFailures limit
DefaultInitial    == 5      \* seconds, calculateBackoff default
DefaultMaxInterval == 300   \* seconds, calculateBackoff default
DefaultAttempt    == 1      \* gorm default of Execution.Attempt
BatchLimit        == 500    \* ListDueJobs limit of PollAndSchedule

Replicas == {"s1", "s2"}
Nodes    == {"n1"}
Jobs     == {1, 2, 3, 4}
Seeded   == {1, 2}        \* the jobs every store holds
NoLeader == "none"
NoNode   == "null"
Null     == -1

ExecutionPending   == "PENDING"
ExecutionRunning   == "RUNNING"
ExecutionSuccess   == "SUCCESS"
ExecutionFailed    == "FAILED"
ExecutionCancelled == "CANCELLED"

JobStatusActive == "ACTIVE"
JobStatusPaused == "PAUSED"
JobStatusArchived == "ARCHIVED"

\* The jobs.  period is the recurrence of the cron expression in seconds
\* (0: the expression does not parse), exit the exit code of the job's
\* command (`exit 1`, `echo hi`); the retry policy is the one of the
\* repository's retry test with max_retries 2.  Job 3 is a row whose
\* schedule column holds no valid cron expression and whose retry policy
\* gives no intervals; job 4 has a policy whose cap is reached at the
\* second attempt.
JobTable ==
    (1 :> [status |-> JobStatusActive, period |-> 60, exit |-> 1,
           max_retries |-> 2, initial_interval |-> 1, max_interval |-> 10])
 @@ (2 :> [status |-> JobStatusPaused, period |-> 60, exit |-> 0,
           max_retries |-> 2, initial_interval |-> 1, max_interval |-> 10])
 @@ (3 :> [status |-> JobStatusActive, period |-> 0, exit |-> 0,
           max_retries |-> 4, initial_interval |-> 0, max_interval |-> 0])
 @@ (4 :> [status |-> JobStatusArchived, period |-> 60, exit |-> 0,
           max_retries |-> 4, initial_interval |-> 3, max_interval |-> 10])

VARIABLES
    now,          \* wall clock, seconds
    reconcileDue, \* reconcileDue[r]: a tick is waiting in r's reconcileTicker.C
    leader,       \* value of the election's leader key, NoLeader if none
    nextRunAt,    \* jobs.next_run_at, Null: the store holds no row for the job
    execs,        \* executions table, in insertion order
    stream,       \* the Redis stream jobs:queue:pending
    groupPos,     \* last-delivered position of the consumer group, Null: no group
    pel,          \* pending entries list of the group: stream positions not acked
    activeNodes,  \* node ids with a live /nodes/ key
    rpc,          \* rpc[r]: where scheduler replica r is in main / Core.Run
    lead,         \* lead[r]: the value election.Leader returned to r's tick
    tnow,         \* tnow[r]: `now` of r's current PollAndSchedule
    w,            \* w[r][j]: dispatch goroutine of r for job j
    rfail,        \* rfail[r]: failures still to visit in r's RetryFailures
    epc,          \* epc[n]: where executor n is in Start / consumeOne
    emsg,         \* emsg[n]: stream position popped by n
    faults,       \* transient errors injected so far
    apiCalls,     \* trigger / cancel requests served so far
    exhausted,    \* ids of the failures RetryFailures skipped as exhausted
    cb,           \* the CircuitBreaker struct: state, counters, lastFailure
    cbCalls,      \* Execute calls whose fn() is running
    streak,       \* ghost: failures recorded since the last recorded success
    refused,      \* ghost: the last Execute call returned ErrCircuitOpen
    admitted,     \* ghost: calls let through since the breaker went half-open
    rl,           \* rl[x]: the RateLimiter of run x, its config and clients map
    ctx,          \* the executor's root context: "live" or "canceled"
    sem,          \* tokens held in Start's semaphore channel
    loop,         \* position of Start's for loop
    tasks,        \* the consumeOne goroutines Start has spawned
    shut          \* shut[r]: where main of scheduler r is in its shutdown

vars == <<now, reconcileDue, leader, nextRunAt, execs, stream, groupPos, pel,
          activeNodes, rpc, lead, tnow, w, rfail, epc, emsg, faults,
          apiCalls, exhausted, cb, cbCalls, streak, refused, admitted, rl, ctx,
          sem, loop, tasks, shut>>

baseVars == <<now, reconcileDue, leader, nextRunAt, execs, stream, groupPos,
              pel, activeNodes, rpc, lead, tnow, w, rfail, epc, emsg, faults,
              apiCalls, exhausted>>
breakerVars == <<cb, cbCalls, streak, refused, admitted>>
poolVars    == <<ctx, sem, loop, tasks>>
auxVars     == <<breakerVars, rl, poolVars, shut>>

schedVars == <<rpc, lead, tnow, w, rfail>>
execVars  == <<epc, emsg>>
queueVars == <<stream, groupPos, pel>>

Terminal == {ExecutionSuccess, ExecutionFailed, ExecutionCancelled}

Min(a, b) == IF a < b THEN a ELSE b

\* ------------------------------------------------------------ recurrence
\* cron schedule.Next(t) of a schedule recurring every `period` seconds: the
\* first occurrence strictly after t.
ScheduleNext(period, t) == ((t \div period) + 1) * period

\* schedule.Next(t) of the schedule of job j.
CronNext(j, t) == ScheduleNext(JobTable[j].period, t)

ScheduleParses(j) == JobTable[j].period > 0

\* ------------------------------------------------------------------ store
Conflict(es, job, sched) ==
    \E i \in DOMAIN es : es[i].job_id = job /\ es[i].scheduled_at = sched

\* The row CreateExecution inserts; attempt 0 takes the column default.
\* src and root record which failure a retry was made for and the original
\* dispatch its chain started from (0: not a retry).
NewExecution(id, job, sched, attempt, src, root) ==
    [id |-> id, job_id |-> job, scheduled_at |-> sched,
     status |-> ExecutionPending,
     attempt |-> IF attempt = 0 THEN DefaultAttempt ELSE attempt,
     node_id |-> NoNode, started_at |-> Null, completed_at |-> Null,
     exit_code |-> 0, src |-> src, root |-> IF root = 0 THEN id ELSE root]

UpdateRunState(es, id, node, t) ==
    [i \in DOMAIN es |->
        IF es[i].id = id
        THEN [es[i] EXCEPT !.status = ExecutionRunning, !.node_id = node,
                           !.started_at = t]
        ELSE es[i]]

UpdateResult(es, id, status, code, t) ==
    [i \in DOMAIN es |->
        IF es[i].id = id
        THEN [es[i] EXCEPT !.status = status, !.exit_code = code,
                           !.completed_at = t]
        ELSE es[i]]

\* The orphan test with `node_id NOT IN ?` applied to an empty list too.
IsOrphanListed(e, active) ==
    /\ e.status = ExecutionRunning
    /\ e.node_id # NoNode
    /\ active # {}
    /\ e.node_id \notin active

IsOrphan(e, active) ==
    /\ e.status = ExecutionRunning
    /\ (active = {} \/ (e.node_id # NoNode /\ e.node_id \notin active))

\* MarkOrphansAsFailed without the condition on the status.
MarkAbsentAsFailed(es, active, t) ==
    [i \in DOMAIN es |->
        IF active = {} \/ (es[i].node_id # NoNode /\ es[i].node_id \notin active)
        THEN [es[i] EXCEPT !.status = ExecutionFailed, !.exit_code = -1,
                           !.completed_at = t]
        ELSE es[i]]

\* RowsAffected of the update of MarkOrphansAsFailed.
OrphansReaped(es, active) ==
    Cardinality({i \in DOMAIN es : IsOrphan(es[i], active)})

MarkOrphansAsFailed(es, active, t) ==
    [i \in DOMAIN es |->
        IF IsOrphan(es[i], active)
        THEN [es[i] EXCEPT !.status = ExecutionFailed, !.exit_code = -1,
                           !.completed_at = t]
        ELSE es[i]]

\* Sequence of the jobs in S, oldest next_run_at first (ties: lower id first).
RECURSIVE OrderAsc(_)
OrderAsc(S) ==
    IF S = {} THEN <<>>
    ELSE LET m == CHOOSE j \in S : \A k \in S :
                      \/ nextRunAt[j] < nextRunAt[k]
                      \/ (nextRunAt[j] = nextRunAt[k] /\ j <= k)
         IN  <<m>> \o OrderAsc(S \ {m})

\* ListDueJobs with the comparison next_run_at < now.
ListDueJobsBefore(t, limit) ==
    LET S   == {j \in Jobs : /\ nextRunAt[j] # Null
                             /\ JobTable[j].status = JobStatusActive
                             /\ nextRunAt[j] < t}
        all == OrderAsc(S)
    IN  SubSeq(all, 1, Min(limit, Len(all)))

ListDueJobs(t, limit) ==
    LET S   == {j \in Jobs : /\ nextRunAt[j] # Null
                             /\ JobTable[j].status = JobStatusActive
                             /\ nextRunAt[j] <= t}
        all == OrderAsc(S)
    IN  SubSeq(all, 1, Min(limit, Len(all)))

\* Sequence of the ids in S, newest completed_at first (ties: higher id first).
RECURSIVE OrderDesc(_, _)
OrderDesc(es, S) ==
    IF S = {} THEN <<>>
    ELSE LET m == CHOOSE i \in S : \A k \in S :
                      \/ es[i].completed_at > es[k].completed_at
                      \/ (es[i].completed_at = es[k].completed_at /\ i >= k)
         IN  <<m>> \o OrderDesc(es, S \ {m})

ListRecentFailures(es, since, limit) ==
    LET S == {i \in DOMAIN es : es[i].status = ExecutionFailed
                                /\ es[i].completed_at >= since}
        all == OrderDesc(es, S)
    IN  SubSeq(all, 1, Min(limit, Len(all)))

\* ---------------------------------------------------------------- backoff
\* calculateBackoff without the cap at the maximum interval.
calculateBackoffUncapped(attempt, policy) ==
    LET initial == IF policy.initial_interval = 0 THEN DefaultInitial
                   ELSE policy.initial_interval
        backoff == initial * (2 ^ attempt)
    IN  (((8 * backoff) + 9) \div 10) .. (((12 * backoff + 9) \div 10) - 1)

\* calculateBackoff: initial * 2^attempt, capped, plus a jitter drawn from
\* [-20%, +20%) of it; the set of possible results that are whole time
\* units (the code computes in nanoseconds).
calculateBackoff(attempt, policy) ==
    LET initial == IF policy.initial_interval = 0 THEN DefaultInitial
                   ELSE policy.initial_interval
        maxI    == IF policy.max_interval = 0 THEN DefaultMaxInterval
                   ELSE policy.max_interval
        backoff == Min(initial * (2 ^ attempt), maxI)
    IN  (((8 * backoff) + 9) \div 10) .. (((12 * backoff + 9) \div 10) - 1)

\* A transient infrastructure error may be injected while the budget lasts.
MayFail == faults < MaxFaults

\* ------------------------------------------------------- circuit breaker
CircuitClosed   == "closed"
CircuitOpen     == "open"
CircuitHalfOpen == "half-open"

\* DefaultCircuitBreakerConfig
FailureThreshold == 5
SuccessThreshold == 2
Timeout          == 30
MaxRequests      == 3

DefaultCircuitBreakerConfig ==
    [FailureThreshold |-> FailureThreshold,
     SuccessThreshold |-> SuccessThreshold,
     Timeout |-> Timeout, MaxRequests |-> MaxRequests]

\* NewCircuitBreaker: only name, config and state are set; the counters are
\* Go zero values.  lastFailure is the zero time.Time, Null here.
NewCircuitBreaker(config) ==
    [config |-> config, state |-> CircuitClosed, failures |-> 0, successes |-> 0,
     halfOpenRequests |-> 0, lastFailure |-> Null]

\* A breaker that answers half-open as soon as it is open.
currentStateNoWait(c, t) ==
    IF c.state = CircuitOpen THEN CircuitHalfOpen ELSE c.state

\* currentState: an open breaker whose timeout has passed answers half-open
\* without storing it.
currentState(c, t) ==
    IF c.state = CircuitOpen
    THEN IF t - c.lastFailure >= c.config.Timeout THEN CircuitHalfOpen ELSE CircuitOpen
    ELSE c.state

\* beforeRequest.  Allowed(c, t) is "it returns nil".
Allowed(c, t) ==
    \/ currentState(c, t) = CircuitClosed
    \/ /\ currentState(c, t) = CircuitHalfOpen
       /\ c.halfOpenRequests < c.config.MaxRequests

\* A beforeRequest that counts only the first half-open call.
beforeRequestUncounted(c, t) ==
    IF currentState(c, t) = CircuitHalfOpen /\ c.halfOpenRequests < c.config.MaxRequests
    THEN IF c.state = CircuitOpen
         THEN [c EXCEPT !.state = CircuitHalfOpen, !.halfOpenRequests = 1]
         ELSE c
    ELSE c

beforeRequest(c, t) ==
    IF currentState(c, t) = CircuitHalfOpen /\ c.halfOpenRequests < c.config.MaxRequests
    THEN IF c.state = CircuitOpen
         THEN [c EXCEPT !.state = CircuitHalfOpen, !.halfOpenRequests = 1]
         ELSE [c EXCEPT !.halfOpenRequests = @ + 1]
    ELSE c

onFailure(c, t) ==
    LET c1 == [c EXCEPT !.failures = @ + 1, !.successes = 0,
                        !.lastFailure = t]
    IN  CASE currentState(c1, t) = CircuitClosed ->
                 IF c1.failures >= c1.config.FailureThreshold
                 THEN [c1 EXCEPT !.state = CircuitOpen, !.halfOpenRequests = 0]
                 ELSE c1
          [] currentState(c1, t) = CircuitHalfOpen ->
                 [c1 EXCEPT !.state = CircuitOpen, !.halfOpenRequests = 0]
          [] OTHER -> c1

onSuccessKeepsCount(c, t) ==
    CASE currentState(c, t) = CircuitClosed -> c
      [] currentState(c, t) = CircuitHalfOpen ->
             IF c.successes + 1 >= c.config.SuccessThreshold
             THEN [c EXCEPT !.state = CircuitClosed, !.failures = 0,
                            !.successes = 0, !.halfOpenRequests = 0]
             ELSE [c EXCEPT !.successes = @ + 1]
      [] OTHER -> c

onSuccess(c, t) ==
    CASE currentState(c, t) = CircuitClosed -> [c EXCEPT !.failures = 0]
      [] currentState(c, t) = CircuitHalfOpen ->
             IF c.successes + 1 >= c.config.SuccessThreshold
             THEN [c EXCEPT !.state = CircuitClosed, !.failures = 0,
                            !.successes = 0, !.halfOpenRequests = 0]
             ELSE [c EXCEPT !.successes = @ + 1]
      [] OTHER -> c

\* Execute calls that may be inside fn() at once.
MaxCalls == 3

\* Execute, first half: beforeRequest under the mutex; on nil the call goes
\* on into fn(), on ErrCircuitOpen Execute returns at once.
BeforeRequest ==
    /\ cbCalls < MaxCalls
    /\ cb' = beforeRequest(cb, now)
    /\ cbCalls' = IF Allowed(cb, now) THEN cbCalls + 1 ELSE cbCalls
    /\ refused' = ~Allowed(cb, now)
    /\ admitted' = IF Allowed(cb, now) /\ currentState(cb, now) = CircuitHalfOpen
                   THEN admitted + 1 ELSE admitted
    /\ UNCHANGED <<baseVars, shut, streak, rl, poolVars>>

\* Execute, second half: fn() has returned err, afterRequest records it.
\* streak counts, apart from the struct's own counter, the failures recorded
\* on a closed breaker since the last recorded success; admitted counts the
\* calls let through since the breaker was last stored open or closed.
AfterRequest(err) ==
    /\ cbCalls > 0
    /\ cbCalls' = cbCalls - 1
    /\ cb' = IF err THEN onFailure(cb, now) ELSE onSuccess(cb, now)
    /\ streak' = IF err /\ cb.state = CircuitClosed THEN streak + 1 ELSE 0
    /\ admitted' = IF cb'.state = CircuitHalfOpen THEN admitted ELSE 0
    /\ UNCHANGED <<baseVars, shut, refused, rl, poolVars>>

\* Reset
Reset ==
    /\ cb' = [cb EXCEPT !.state = CircuitClosed, !.failures = 0,
                        !.successes = 0, !.halfOpenRequests = 0]
    /\ streak' = 0
    /\ admitted' = 0
    /\ UNCHANGED <<baseVars, shut, cbCalls, refused, rl, poolVars>>

\* ---------------------------------------------------------- rate limiter
\* Two runs of the API process, each with its own RateLimiter.
Runs == {"a", "b"}

ClientIds == {"c1", "c2"}

\* Largest BurstSize configured.
MaxBurst == 2

\* RateLimiterConfig values: one request per minute or per second, a burst of
\* 1..MaxBurst, cleanup every 30 s.
LimiterConfigs ==
    [RequestsPerMinute : {1, 60}, BurstSize : 1..MaxBurst,
     CleanupInterval : {30}]

\* Tokens are counted in sixtieths, so that rate = RequestsPerMinute / 60
\* tokens per second is exact for whole seconds.
Unit == 60

\* clients[id] of a client the map does not hold.
NoBucket ==
    [exists |-> FALSE, tokens |-> 0, lastRefill |-> 0, fresh |-> FALSE,
     granted |-> 0, last |-> FALSE]

\* NewRateLimiter
NewRateLimiter(config) ==
    [config |-> config, clients |-> [c \in ClientIds |-> NoBucket]]

\* A limiter that keeps one bucket for everybody.
KeyShared(clientID) == "c1"

\* The map key Allow uses: the client id.
Key(clientID) == clientID

\* A refill without the cap at maxTokens.
RefillUncapped(tokens, elapsed, config) ==
    tokens + elapsed * config.RequestsPerMinute

\* Allow: bucket.tokens += elapsed * rl.rate, capped at rl.maxTokens.
Refill(tokens, elapsed, config) ==
    Min(tokens + elapsed * config.RequestsPerMinute, config.BurstSize * Unit)

\* RateLimiter.Allow(clientID) at time t: the limiter afterwards.  The
\* fields fresh, granted and last are not in the struct: whether every call
\* so far came in the instant the bucket was made, the requests allowed in
\* that instant, and what Allow returned.
Allow(l, clientID, t) ==
    LET k   == Key(clientID)
        old == l.clients[k]
        b   == IF old.exists THEN old
               ELSE [exists |-> TRUE, tokens |-> l.config.BurstSize * Unit,
                     lastRefill |-> t, fresh |-> TRUE, granted |-> 0,
                     last |-> FALSE]
        new == b.fresh /\ b.lastRefill = t
        tok == Refill(b.tokens, t - b.lastRefill, l.config)
        ok  == tok >= Unit
    IN  [l EXCEPT !.clients[k] =
            [b EXCEPT !.tokens = IF ok THEN tok - Unit ELSE tok,
                      !.lastRefill = t,
                      !.fresh = new,
                      !.granted = IF ~new THEN 0 ELSE IF ok THEN @ + 1 ELSE @,
                      !.last = ok]]

\* RateLimiter.cleanup, one firing of its ticker at time t.
cleanup(l, t) ==
    [l EXCEPT !.clients = [c \in ClientIds |->
        IF l.clients[c].exists
           /\ l.clients[c].lastRefill < t - l.config.CleanupInterval
        THEN NoBucket ELSE l.clients[c]]]

\* The observed client c1 sends a request in both runs at the same time.
AllowBoth ==
    /\ rl' = [x \in Runs |-> Allow(rl[x], "c1", now)]
    /\ UNCHANGED <<baseVars, shut, breakerVars, poolVars>>

\* Some client sends a request in one run only.
AllowOne(x, c) ==
    /\ rl' = [rl EXCEPT ![x] = Allow(rl[x], c, now)]
    /\ UNCHANGED <<baseVars, shut, breakerVars, poolVars>>

\* The cleanup ticker fires, at the same times in both runs.
Cleanup ==
    /\ now > 0
    /\ \A x \in Runs : now % rl[x].config.CleanupInterval = 0
    /\ rl' = [x \in Runs |-> cleanup(rl[x], now)]
    /\ UNCHANGED <<baseVars, shut, breakerVars, poolVars>>

\* ---------------------------------------------------------- initial state
\* The configuration of TestRateLimiter_BlocksExcessRequests, with a cleanup
\* every 30 s.
TestRateLimiterConfig ==
    [RequestsPerMinute |-> 60, BurstSize |-> MaxBurst, CleanupInterval |-> 30]

\* main before the shutdown signal: ctx is live; calls records, once the
\* context is cancelled, the store or queue call each goroutine of the tick
\* was in.
NotShut == [phase |-> "running", calls |-> [j \in Jobs |-> "none"],
            pass |-> "none"]

AuxInitOf(config, lconfig) ==
    /\ cb = NewCircuitBreaker(config)
    /\ rl = [x \in Runs |-> NewRateLimiter(lconfig)]
    /\ cbCalls = 0
    /\ streak = 0
    /\ refused = FALSE
    /\ admitted = 0
    /\ ctx = "live"
    /\ sem = 0
    /\ loop = "select"
    /\ tasks = <<>>
    /\ shut = [r \in Replicas |-> NotShut]

AuxInitWith(config) == AuxInitOf(config, TestRateLimiterConfig)

AuxInit == AuxInitWith(DefaultCircuitBreakerConfig)

\* The system at time t0, before any process has done anything: jobs 1 and
\* 2 were created in the minute before t0; with nra3 = Null the store holds
\* no other job, otherwise it also holds job 3 with next_run_at nra3 and
\* job 4, archived in the minute before t0; f transient errors and a admin
\* requests have already been spent.
InitWith(t0, f, a, nra3) ==
    /\ now = t0
    /\ reconcileDue = [r \in Replicas |-> FALSE]
    /\ leader = NoLeader
    /\ nextRunAt = [j \in Jobs |->
                       IF j \notin Seeded /\ nra3 = Null THEN Null
                       ELSE IF ScheduleParses(j) THEN CronNext(j, t0 - 1)
                       ELSE nra3]
    /\ execs = <<>>
    /\ stream = <<>>
    /\ groupPos = Null
    /\ pel = {}
    /\ activeNodes = {}
    /\ rpc = [r \in Replicas |-> "campaign"]
    /\ lead = [r \in Replicas |-> NoLeader]
    /\ tnow = [r \in Replicas |-> 0]
    /\ w = [r \in Replicas |-> [j \in Jobs |->
               [pc |-> "none", nra |-> 0, pred |-> "none", exec |-> 0,
                out |-> "none"]]]
    /\ rfail = [r \in Replicas |-> <<>>]
    /\ epc = [n \in Nodes |-> "start"]
    /\ emsg = [n \in Nodes |-> 0]
    /\ faults = f
    /\ apiCalls = a
    /\ exhausted = {}
    /\ AuxInit

InitAt(t0, f, a) == InitWith(t0, f, a, Null)

Init == InitAt(0, 0, 0)

\* ---------------------------------------------------------------- clock
\* 30 s pass; the reconcile ticker of every replica inside Core.Run fires.
Tick ==
    /\ now < MaxTicks * ReconcileInterval
    /\ now' = now + ReconcileInterval
    /\ reconcileDue' = [r \in Replicas |-> rpc[r] # "campaign"]
    /\ UNCHANGED <<leader, nextRunAt, execs, queueVars, activeNodes, schedVars,
                   execVars, faults, apiCalls, exhausted, auxVars>>

\* ------------------------------------------------------------- election
\* main: election.Campaign returns once no other participant leads.  The
\* replicas are interchangeable, so s1 is taken to be the first to campaign.
Campaign(r) ==
    /\ rpc[r] = "campaign"
    /\ r = "s1" \/ rpc["s1"] # "campaign"
    /\ leader = NoLeader
    /\ leader' = r
    /\ rpc' = [rpc EXCEPT ![r] = "idle"]
    /\ UNCHANGED <<now, reconcileDue, nextRunAt, execs, queueVars, activeNodes,
                   lead, tnow, w, rfail, execVars, faults, apiCalls, exhausted,
                   auxVars>>

\* The leader's etcd session lapses: its key goes, its process runs on.
SessionExpire(r) ==
    /\ leader = r
    /\ leader' = NoLeader
    /\ UNCHANGED <<now, reconcileDue, nextRunAt, execs, queueVars, activeNodes,
                   schedVars, execVars, faults, apiCalls, exhausted, auxVars>>

\* --------------------------------------------------------- dispatch tick
\* Whether a tick goes on after election.Leader answered `observed` to r:
\* Core.Run discards the answer (`_ = leader`).
ProceedAsLeader(r, observed) == TRUE

\* Core.Run, case <-ticker.C: query the leader, then drain.
DispatchTick(r) ==
    /\ rpc[r] = "idle"
    /\ lead' = [lead EXCEPT ![r] = leader]
    /\ rpc' = [rpc EXCEPT ![r] =
                 IF leader # NoLeader /\ ProceedAsLeader(r, leader)
                 THEN "poll" ELSE "idle"]
    /\ UNCHANGED <<now, reconcileDue, leader, nextRunAt, execs, queueVars,
                   activeNodes, tnow, w, rfail, execVars, faults, apiCalls,
                   exhausted, auxVars>>

NoWorker ==
    [pc |-> "none", nra |-> 0, pred |-> "none", exec |-> 0, out |-> "none"]

\* PollAndSchedule up to the launch of one goroutine per due job.
Poll(r) ==
    /\ rpc[r] = "poll"
    /\ LET jobs == ListDueJobs(now, BatchLimit)
           due  == {jobs[k] : k \in DOMAIN jobs}
       IN
         IF due = {}
         THEN /\ rpc' = [rpc EXCEPT ![r] = "idle"]
              /\ lead' = [lead EXCEPT ![r] = NoLeader]
              /\ UNCHANGED <<tnow, w>>
         ELSE /\ rpc' = [rpc EXCEPT ![r] = "dispatching"]
              /\ tnow' = [tnow EXCEPT ![r] = now]
              /\ UNCHANGED lead
              /\ w' = [w EXCEPT ![r] = [j \in Jobs |->
                         IF j \in due
                         THEN [pc |-> "create", nra |-> nextRunAt[j],
                               pred |-> "none", exec |-> 0, out |-> "none"]
                         ELSE NoWorker]]
    /\ UNCHANGED <<now, reconcileDue, leader, nextRunAt, execs, queueVars,
                   activeNodes, rfail, execVars, faults, apiCalls, exhausted,
                   auxVars>>

\* Core.updateNextRun: the new next_run_at column.
updateNextRun(j, t) ==
    IF ScheduleParses(j)
    THEN [nextRunAt EXCEPT ![j] = CronNext(j, t)]
    ELSE nextRunAt

\* Answers of the failure predictor: a decision, or "error" for a call that
\* failed, timed out or was answered with a status other than 200.
PredictOutcomes == {"PROCEED", "ABORT", "error"}

\* A scheduler that dispatches only on the predictor's word.
DispatchesOnProceed(outcome) == outcome = "PROCEED"

\* A scheduler that asks the predictor and never listens.
DispatchesAlways(outcome) == TRUE

\* Whether the goroutine goes on to dispatch after the predictor's answer:
\* an error is logged and ignored, only the decision ABORT stops it.
Dispatches(outcome) == outcome # "ABORT"

\* CreateExecution on a table without the unique index: every insert succeeds.
CreateExecutionNoIndex(es, e) == [err |-> FALSE, rows |-> Append(es, e)]

\* PostgresStore.CreateExecution under the unique index idx_job_scheduled.
CreateExecution(es, e) ==
    IF Conflict(es, e.job_id, e.scheduled_at)
    THEN [err |-> TRUE,  rows |-> es]
    ELSE [err |-> FALSE, rows |-> Append(es, e)]

\* A dispatch goroutine that logs the error of CreateExecution and goes on.
AfterCreateGoOn(err) == "push"

\* Where the dispatch goroutine goes after CreateExecution: `return` on error.
AfterCreate(err) == IF err THEN "done" ELSE "push"

\* A dispatch goroutine that logs the error of Push and goes on.
AfterPushGoOn(err) == "update"

\* Where the dispatch goroutine goes after Push: `return` on error.
AfterPush(err) == IF err THEN "done" ELSE "update"

\* The payload RedisQueue.Push serialises.
Message(e) ==
    [id |-> e.id, job_id |-> e.job_id, scheduled_at |-> e.scheduled_at,
     attempt |-> e.attempt]

\* The dispatch goroutine up to CreateExecution: the predictor is asked, and
\* unless it says ABORT the execution is recorded in the store.
Create(r, j) ==
    /\ w[r][j].pc = "create"
    /\ LET e   == NewExecution(Len(execs) + 1, j, w[r][j].nra, 0, 0, 0)
           res == CreateExecution(execs, e)
       IN  \E outcome \in PredictOutcomes :
             IF ~Dispatches(outcome)
             THEN /\ nextRunAt' = updateNextRun(j, tnow[r])
                  /\ w' = [w EXCEPT ![r][j].pc = "done",
                                    ![r][j].pred = outcome,
                                    ![r][j].out = "aborted"]
                  /\ UNCHANGED <<execs, faults>>
             ELSE /\ \/ /\ execs' = res.rows
                        /\ w' = [w EXCEPT ![r][j].pc = AfterCreate(res.err),
                                          ![r][j].pred = outcome,
                                          ![r][j].exec = e.id,
                                          ![r][j].out = IF res.err
                                                        THEN "conflict"
                                                        ELSE "created"]
                        /\ UNCHANGED faults
                     \/ /\ MayFail
                        /\ faults' = faults + 1
                        /\ w' = [w EXCEPT ![r][j].pc = AfterCreate(TRUE),
                                          ![r][j].pred = outcome,
                                          ![r][j].out = "create_error"]
                        /\ UNCHANGED execs
                  /\ UNCHANGED nextRunAt
    /\ UNCHANGED <<now, reconcileDue, leader, queueVars, activeNodes, rpc, lead,
                   tnow, rfail, execVars, apiCalls, exhausted, auxVars>>

\* The dispatch goroutine, 2: queue.Push of the recorded execution.
Push(r, j) ==
    /\ w[r][j].pc = "push"
    /\ LET e == NewExecution(w[r][j].exec, j, w[r][j].nra, 0, 0, 0)
       IN  \/ /\ stream' = Append(stream, Message(e))
              /\ w' = [w EXCEPT ![r][j].pc = AfterPush(FALSE),
                                ![r][j].out = "pushed"]
              /\ UNCHANGED faults
           \/ /\ MayFail
              /\ faults' = faults + 1
              /\ w' = [w EXCEPT ![r][j].pc = AfterPush(TRUE),
                                ![r][j].out = "push_error"]
              /\ UNCHANGED stream
    /\ UNCHANGED <<now, reconcileDue, leader, nextRunAt, execs, groupPos, pel,
                   activeNodes, rpc, lead, tnow, rfail, execVars, apiCalls,
                   exhausted, auxVars>>

\* The dispatch goroutine, last: c.updateNextRun(ctx, &j, now).
Update(r, j) ==
    /\ w[r][j].pc = "update"
    /\ nextRunAt' = updateNextRun(j, tnow[r])
    /\ w' = [w EXCEPT ![r][j].pc = "done", ![r][j].out = "advanced"]
    /\ UNCHANGED <<now, reconcileDue, leader, execs, queueVars, activeNodes,
                   rpc, lead, tnow, rfail, execVars, faults, apiCalls,
                   exhausted, auxVars>>

\* wg.Wait returns; PollAndSchedule reports len(jobs) > 0 and Run drains on.
Join(r) ==
    /\ rpc[r] = "dispatching"
    /\ \A j \in Jobs : w[r][j].pc \in {"none", "done"}
    /\ rpc' = [rpc EXCEPT ![r] = "poll"]
    /\ w' = [w EXCEPT ![r] = [j \in Jobs |-> NoWorker]]
    /\ tnow' = [tnow EXCEPT ![r] = 0]
    /\ UNCHANGED <<now, reconcileDue, leader, nextRunAt, execs, queueVars,
                   activeNodes, lead, rfail, execVars, faults, apiCalls,
                   exhausted, auxVars>>

\* -------------------------------------------------------- reconcile tick
\* Core.Run, case <-reconcileTicker.C.
ReconcileTick(r) ==
    /\ rpc[r] = "idle"
    /\ reconcileDue[r]
    /\ reconcileDue' = [reconcileDue EXCEPT ![r] = FALSE]
    /\ lead' = [lead EXCEPT ![r] = leader]
    /\ rpc' = [rpc EXCEPT ![r] =
                 IF leader # NoLeader /\ ProceedAsLeader(r, leader)
                 THEN "reconcile" ELSE "idle"]
    /\ UNCHANGED <<now, leader, nextRunAt, execs, queueVars, activeNodes, tnow,
                   w, rfail, execVars, faults, apiCalls, exhausted, auxVars>>

\* Core.Reconcile up to the loop of RetryFailures: GetActiveNodes,
\* MarkOrphansAsFailed, ListRecentFailures.
Reconcile(r) ==
    /\ rpc[r] = "reconcile"
    /\ execs' = MarkOrphansAsFailed(execs, activeNodes, now)
    /\ LET fs == ListRecentFailures(execs', now - LookBack, FailureLimit) IN
         /\ rfail' = [rfail EXCEPT ![r] = fs]
         /\ rpc' = [rpc EXCEPT ![r] = IF fs = <<>> THEN "idle" ELSE "retrying"]
         /\ lead' = [lead EXCEPT ![r] = IF fs = <<>> THEN NoLeader ELSE @]
    /\ UNCHANGED <<now, reconcileDue, leader, nextRunAt, queueVars, activeNodes,
                   tnow, w, execVars, faults, apiCalls, exhausted, auxVars>>

\* RetryFailures gives a failure up once its attempt reaches the policy's limit.
Exhausted(attempt, maxRetries) == attempt >= maxRetries

\* Whether RetryFailures still has to treat failure f: the code keeps no
\* "retried" marker and treats every failure it lists.
NotYetRetried(es, f) == TRUE

\* One iteration of the loop of Core.RetryFailures, on the first failure left.
RetryOne(r) ==
    /\ rpc[r] = "retrying"
    /\ LET f      == Head(rfail[r])
           rest   == Tail(rfail[r])
           job    == JobTable[execs[f].job_id]
           goOn   == /\ rfail' = [rfail EXCEPT ![r] = rest]
                     /\ rpc' = [rpc EXCEPT ![r] =
                                  IF rest = <<>> THEN "idle" ELSE "retrying"]
                     /\ lead' = [lead EXCEPT ![r] =
                                   IF rest = <<>> THEN NoLeader ELSE @]
       IN  IF Exhausted(execs[f].attempt, job.max_retries)
           THEN /\ exhausted' = exhausted \cup {f}
                /\ goOn
                /\ UNCHANGED <<execs, stream, faults>>
           ELSE IF ~NotYetRetried(execs, f)
           THEN /\ goOn
                /\ UNCHANGED <<execs, stream, faults, exhausted>>
           ELSE /\ Len(execs) < MaxExecs
                /\ \E d \in calculateBackoff(execs[f].attempt, job) :
                     LET e   == NewExecution(Len(execs) + 1, execs[f].job_id,
                                             now + d, execs[f].attempt + 1,
                                             f, execs[f].root)
                         res == CreateExecution(execs, e)
                     IN  \/ /\ execs' = res.rows
                            /\ stream' = IF res.err THEN stream
                                         ELSE Append(stream, Message(e))
                            /\ UNCHANGED faults
                         \/ /\ ~res.err
                            /\ MayFail
                            /\ faults' = faults + 1
                            /\ execs' = res.rows
                            /\ UNCHANGED stream
                /\ goOn
                /\ UNCHANGED exhausted
    /\ UNCHANGED <<now, reconcileDue, leader, nextRunAt, groupPos, pel,
                   activeNodes, tnow, w, execVars, apiCalls, auxVars>>

\* ------------------------------------------------------------ admin API
\* Server.triggerJob: a manual execution scheduled at the current time.
TriggerJob(j) ==
    /\ apiCalls < MaxApiCalls
    /\ nextRunAt[j] # Null
    /\ Len(execs) < MaxExecs
    /\ apiCalls' = apiCalls + 1
    /\ LET e   == NewExecution(Len(execs) + 1, j, now, 0, 0, 0)
           res == CreateExecution(execs, e)
       IN  /\ execs' = res.rows
           /\ \/ /\ stream' = IF res.err THEN stream
                              ELSE Append(stream, Message(e))
                 /\ UNCHANGED faults
              \/ /\ ~res.err
                 /\ MayFail
                 /\ faults' = faults + 1
                 /\ UNCHANGED stream
    /\ UNCHANGED <<now, reconcileDue, leader, nextRunAt, groupPos, pel,
                   activeNodes, schedVars, execVars, exhausted, auxVars>>

\* The schedules a PATCH request may carry: every minute, every second
\* minute, an expression that does not parse (0).
PatchSchedules == {0, 60, 120}

\* Server.updateJob with a schedule in the request: the expression is
\* validated and next_run_at is set to its next occurrence after now; the
\* schedule column itself is not written.
UpdateJob(j, period) ==
    /\ apiCalls < MaxApiCalls
    /\ nextRunAt[j] # Null
    /\ apiCalls' = apiCalls + 1
    /\ nextRunAt' = IF period = 0 THEN nextRunAt
                    ELSE [nextRunAt EXCEPT ![j] = ScheduleNext(period, now)]
    /\ UNCHANGED <<now, reconcileDue, leader, execs, queueVars, activeNodes,
                   schedVars, execVars, faults, exhausted, auxVars>>

\* Server.cancelExecution: UpdateResult(id, CANCELLED, -1, "").
CancelExecution(i) ==
    /\ apiCalls < MaxApiCalls
    /\ i \in DOMAIN execs
    /\ apiCalls' = apiCalls + 1
    /\ execs' = UpdateResult(execs, i, ExecutionCancelled, -1, now)
    /\ UNCHANGED <<now, reconcileDue, leader, nextRunAt, queueVars, activeNodes,
                   schedVars, execVars, faults, exhausted, auxVars>>

\* -------------------------------------------------------------- executor
\* ShellRunner.Run: the exit code of the command carried by message m.
RunCommand(m) == JobTable[m.job_id].exit

\* Executor.Start: EnsureGroup creates the group at the stream's tail.
Start(n) ==
    /\ epc[n] = "start"
    /\ groupPos' = IF groupPos = Null THEN Len(stream) ELSE groupPos
    /\ epc' = [epc EXCEPT ![n] = "pop"]
    /\ UNCHANGED <<now, reconcileDue, leader, nextRunAt, execs, stream, pel,
                   activeNodes, schedVars, emsg, faults, apiCalls, exhausted,
                   auxVars>>

\* The heartbeat goroutine: RegisterNode puts /nodes/{id} under a lease.
RegisterHeartbeat(n) ==
    /\ epc[n] \notin {"start", "dead"}
    /\ n \notin activeNodes
    /\ activeNodes' = activeNodes \cup {n}
    /\ UNCHANGED <<now, reconcileDue, leader, nextRunAt, execs, queueVars,
                   schedVars, execVars, faults, apiCalls, exhausted, auxVars>>

\* XREADGROUP from id "0": the oldest entry is handed out again.
DeliverFromStart(pos) == 1

\* XREADGROUP with id ">": the entry after the group's last-delivered one.
Deliver(pos) == pos + 1

\* consumeOne: queue.Pop hands out one entry, if the stream has it.
Pop(n) ==
    /\ epc[n] = "pop"
    /\ groupPos # Null
    /\ Deliver(groupPos) <= Len(stream)
    /\ groupPos' = IF Deliver(groupPos) > groupPos THEN Deliver(groupPos)
                   ELSE groupPos
    /\ pel' = pel \cup {Deliver(groupPos)}
    /\ emsg' = [emsg EXCEPT ![n] = Deliver(groupPos)]
    /\ epc' = [epc EXCEPT ![n] = "claim"]
    /\ UNCHANGED <<now, reconcileDue, leader, nextRunAt, execs, stream,
                   activeNodes, schedVars, faults, apiCalls, exhausted,
                   auxVars>>

\* consumeOne, 1: report RUNNING; an error is logged and the run goes on.
Claim(n) ==
    /\ epc[n] = "claim"
    /\ \/ /\ execs' = UpdateRunState(execs, stream[emsg[n]].id, n, now)
          /\ UNCHANGED faults
       \/ /\ MayFail
          /\ faults' = faults + 1
          /\ UNCHANGED execs
    /\ epc' = [epc EXCEPT ![n] = "run"]
    /\ UNCHANGED <<now, reconcileDue, leader, nextRunAt, queueVars, activeNodes,
                   schedVars, emsg, apiCalls, exhausted, auxVars>>

\* consumeOne, 2: the status reported for an exit code.
ResultStatus(code) == IF code # 0 THEN ExecutionFailed ELSE ExecutionSuccess

\* consumeOne: the command ends with some exit code and the result is written.
Report(n) ==
    /\ epc[n] = "run"
    /\ LET code == RunCommand(stream[emsg[n]]) IN
         \/ /\ execs' = UpdateResult(execs, stream[emsg[n]].id,
                                     ResultStatus(code), code, now)
            /\ UNCHANGED faults
         \/ /\ MayFail
            /\ faults' = faults + 1
            /\ UNCHANGED execs
    /\ epc' = [epc EXCEPT ![n] = "ack"]
    /\ UNCHANGED <<now, reconcileDue, leader, nextRunAt, queueVars, activeNodes,
                   schedVars, emsg, apiCalls, exhausted, auxVars>>

\* consumeOne: XACK, then the slot is free for the next consumeOne.
Ack(n) ==
    /\ epc[n] = "ack"
    /\ pel' = pel \ {emsg[n]}
    /\ emsg' = [emsg EXCEPT ![n] = 0]
    /\ epc' = [epc EXCEPT ![n] = "pop"]
    /\ UNCHANGED <<now, reconcileDue, leader, nextRunAt, execs, stream, groupPos,
                   activeNodes, schedVars, faults, apiCalls, exhausted,
                   auxVars>>

\* The executor process is killed.
Crash(n) ==
    /\ epc[n] \notin {"start", "dead"}
    /\ epc' = [epc EXCEPT ![n] = "dead"]
    /\ emsg' = [emsg EXCEPT ![n] = 0]
    /\ UNCHANGED <<now, reconcileDue, leader, nextRunAt, execs, queueVars,
                   activeNodes, schedVars, faults, apiCalls, exhausted,
                   auxVars>>

\* The lease of a dead executor's node key runs out.
Expire(n) ==
    /\ epc[n] = "dead"
    /\ n \in activeNodes
    /\ activeNodes' = activeNodes \ {n}
    /\ UNCHANGED <<now, reconcileDue, leader, nextRunAt, execs, queueVars,
                   schedVars, execVars, faults, apiCalls, exhausted, auxVars>>

\* ---------------------------------------------------------- specification
\* The steps of the scheduler replicas in R.
ElectionStep(R) ==
    \/ \E r \in R : Campaign(r)
    \/ \E r \in R : SessionExpire(r)

DispatchStep(R) ==
    \/ \E r \in R : DispatchTick(r)
    \/ \E r \in R : Poll(r)
    \/ \E r \in R, j \in Jobs : Create(r, j)
    \/ \E r \in R, j \in Jobs : Push(r, j)
    \/ \E r \in R, j \in Jobs : Update(r, j)
    \/ \E r \in R : Join(r)

ReconcileStep(R) ==
    \/ \E r \in R : ReconcileTick(r)
    \/ \E r \in R : Reconcile(r)
    \/ \E r \in R : RetryOne(r)

ExecutorStep ==
    \/ \E n \in Nodes : Start(n)
    \/ \E n \in Nodes : RegisterHeartbeat(n)
    \/ \E n \in Nodes : Pop(n)
    \/ \E n \in Nodes : Claim(n)
    \/ \E n \in Nodes : Report(n)
    \/ \E n \in Nodes : Ack(n)
    \/ \E n \in Nodes : Crash(n)
    \/ \E n \in Nodes : Expire(n)

\* The whole system.
Next ==
    \/ Tick
    \/ ElectionStep(Replicas)
    \/ DispatchStep(Replicas)
    \/ ReconcileStep(Replicas)
    \/ \E j \in Jobs : TriggerJob(j)
    \/ \E i \in 1..MaxExecs : CancelExecution(i)
    \/ ExecutorStep

Spec == Init /\ [][Next]_vars

\* Two scheduler replicas dispatching, with sessions that lapse.
NextDispatch ==
    \/ Tick
    \/ ElectionStep(Replicas)
    \/ DispatchStep(Replicas)

SpecDispatch == Init /\ [][NextDispatch]_vars

\* One scheduler replica that keeps its leadership and keeps running: main
\* gets through Campaign, and the select loop of Core.Run goes on taking
\* steps as long as it has one to take.
NextFair ==
    \/ Tick
    \/ Campaign("s1")
    \/ DispatchStep({"s1"})

FairDispatch ==
    /\ Init
    /\ [][NextFair]_vars
    /\ WF_vars(Campaign("s1"))
    /\ WF_vars(DispatchStep({"s1"}))

\* One scheduler replica with the executor, the reconciler and the admin
\* API, over the last reconcile interval of the horizon.
NextLife ==
    \/ Tick
    \/ Campaign("s1")
    \/ DispatchStep({"s1"})
    \/ ReconcileStep({"s1"})
    \/ \E j \in Jobs : TriggerJob(j)
    \/ \E i \in 1..MaxExecs : CancelExecution(i)
    \/ ExecutorStep

InitLife == InitAt((MaxTicks - 1) * ReconcileInterval, 0, 0)

SpecLife == InitLife /\ [][NextLife]_vars

\* One scheduler replica and an executor that stays up, no infrastructure
\* error and no admin request: the retry engine over the whole horizon.
NextRetry ==
    \/ Tick
    \/ Campaign("s1")
    \/ DispatchStep({"s1"})
    \/ ReconcileStep({"s1"})
    \/ \E n \in Nodes : Start(n)
    \/ \E n \in Nodes : RegisterHeartbeat(n)
    \/ \E n \in Nodes : Pop(n)
    \/ \E n \in Nodes : Claim(n)
    \/ \E n \in Nodes : Report(n)
    \/ \E n \in Nodes : Ack(n)

InitRetry == InitAt(0, MaxFaults, MaxApiCalls)

SpecRetry == InitRetry /\ [][NextRetry]_vars

\* The node ids the registry and the node_id column range over.
NodeIds == {"n1", "n2"}

\* The rows an execution popped by some node can stand in: claimed, or
\* finished in one of the three ways (exit code 1, 0, cancelled).
StoredRows(id, job) ==
    {NewExecution(id, job, 0, 0, 0, 0)}
    \cup {UpdateRunState(<<NewExecution(id, job, 0, 0, 0, 0)>>, id, n, 0)[1] :
             n \in NodeIds}
    \cup {UpdateResult(
             UpdateRunState(<<NewExecution(id, job, 0, 0, 0, 0)>>, id, n, 0),
             id, st[1], st[2], 0)[1] :
             n \in NodeIds,
             st \in {<<ExecutionFailed, 1>>, <<ExecutionSuccess, 0>>,
                     <<ExecutionCancelled, -1>>}}

\* A scheduler that has just won the election over a store left by earlier
\* runs: one execution of job 1 and one of job 2 in any status, any set of
\* live nodes, and the reconcile ticker about to fire.
InitReapWith(f) ==
    /\ now = ReconcileInterval
    /\ reconcileDue = [r \in Replicas |-> r = "s1"]
    /\ leader = "s1"
    /\ nextRunAt = [j \in Jobs |->
                       IF ScheduleParses(j) THEN CronNext(j, ReconcileInterval)
                       ELSE Null]
    /\ \E e1 \in StoredRows(1, 1), e2 \in StoredRows(2, 2) : execs = <<e1, e2>>
    /\ stream = <<>>
    /\ groupPos = Null
    /\ pel = {}
    /\ activeNodes \in SUBSET NodeIds
    /\ rpc = [r \in Replicas |-> IF r = "s1" THEN "idle" ELSE "campaign"]
    /\ lead = [r \in Replicas |-> NoLeader]
    /\ tnow = [r \in Replicas |-> 0]
    /\ w = [r \in Replicas |-> [j \in Jobs |-> NoWorker]]
    /\ rfail = [r \in Replicas |-> <<>>]
    /\ epc = [n \in Nodes |-> "start"]
    /\ emsg = [n \in Nodes |-> 0]
    /\ faults = f
    /\ apiCalls = MaxApiCalls
    /\ exhausted = {}
    /\ AuxInit

InitReap == InitReapWith(MaxFaults)

\* The reconcile ticks of that scheduler.
NextReap ==
    \/ Tick
    \/ ReconcileStep({"s1"})

SpecReap == InitReap /\ [][NextReap]_vars

\* The writers of next_run_at side by side: two scheduler replicas
\* dispatching and the admin API patching schedules.
NextWriters ==
    \/ Tick
    \/ ElectionStep(Replicas)
    \/ DispatchStep(Replicas)
    \/ \E j \in Jobs, period \in PatchSchedules : UpdateJob(j, period)

InitWriters == InitAt(0, MaxFaults, 0)

SpecWriters == InitWriters /\ [][NextWriters]_vars

\* One scheduler replica over a store that holds every kind of job: job 1
\* due from the start, jobs 2 and 4 paused and archived with a next_run_at
\* in the past, job 3 active with a schedule that does not parse and due
\* one tick later.
NextJobs ==
    \/ Tick
    \/ Campaign("s1")
    \/ DispatchStep({"s1"})

InitJobs == InitWith(0, MaxFaults, MaxApiCalls, ReconcileInterval)

SpecJobs == InitJobs /\ [][NextJobs]_vars

\* The executor process is started again under the same node id.
Restart(n) ==
    /\ epc[n] = "dead"
    /\ epc' = [epc EXCEPT ![n] = "start"]
    /\ UNCHANGED <<now, reconcileDue, leader, nextRunAt, execs, queueVars,
                   activeNodes, schedVars, emsg, faults, apiCalls, exhausted,
                   auxVars>>

\* The queue between one scheduler, the admin API and an executor that may
\* be killed and started again, without infrastructure errors, within one
\* reconcile interval.
NextQueue ==
    \/ Campaign("s1")
    \/ DispatchStep({"s1"})
    \/ \E j \in Jobs : TriggerJob(j)
    \/ ExecutorStep
    \/ \E n \in Nodes : Restart(n)

InitQueue == InitAt(0, MaxFaults, 0)

SpecQueue == InitQueue /\ [][NextQueue]_vars

\* The steps of a consumer that is up: consumeOne after consumeOne.
ConsumerStep ==
    \/ \E n \in Nodes : Start(n)
    \/ \E n \in Nodes : Pop(n)
    \/ \E n \in Nodes : Claim(n)
    \/ \E n \in Nodes : Report(n)
    \/ \E n \in Nodes : Ack(n)

\* The same queue with an executor that is always started again and, while
\* it is up, keeps consuming.
FairQueue ==
    /\ InitQueue
    /\ [][NextQueue]_vars
    /\ WF_vars(ConsumerStep)
    /\ WF_vars(\E n \in Nodes : Restart(n))

\* A FAILED row of job j with attempt a, run on node n and finished at t.
FailedRow(id, j, a, n, t) ==
    UpdateResult(
        UpdateRunState(<<NewExecution(id, j, 0, a, 0, 0)>>, id, n, 0),
        id, ExecutionFailed, 1, t)[1]

\* The attempts a stored failure may carry.
MaxAttempt == 3

\* A scheduler that has just won the election over a store that holds one
\* recent failure, of any job and any attempt, with its reconcile ticker
\* about to fire.
InitBackoff ==
    /\ now = ReconcileInterval
    /\ reconcileDue = [r \in Replicas |-> r = "s1"]
    /\ leader = "s1"
    /\ nextRunAt = [j \in Jobs |->
                       IF ScheduleParses(j) THEN CronNext(j, ReconcileInterval)
                       ELSE 0]
    /\ \E j \in Jobs, a \in 1..MaxAttempt :
           execs = <<FailedRow(1, j, a, "n1", ReconcileInterval)>>
    /\ stream = <<>>
    /\ groupPos = Null
    /\ pel = {}
    /\ activeNodes = {"n1"}
    /\ rpc = [r \in Replicas |-> IF r = "s1" THEN "idle" ELSE "campaign"]
    /\ lead = [r \in Replicas |-> NoLeader]
    /\ tnow = [r \in Replicas |-> 0]
    /\ w = [r \in Replicas |-> [j \in Jobs |-> NoWorker]]
    /\ rfail = [r \in Replicas |-> <<>>]
    /\ epc = [n \in Nodes |-> "start"]
    /\ emsg = [n \in Nodes |-> 0]
    /\ faults = MaxFaults
    /\ apiCalls = MaxApiCalls
    /\ exhausted = {}
    /\ AuxInit

\* The retry engine of that scheduler, reconcile tick after reconcile tick.
NextBackoff ==
    \/ Tick
    \/ ReconcileStep({"s1"})

SpecBackoff == InitBackoff /\ [][NextBackoff]_vars

\* ------------------------------------------- a crowded look-back window
\* How many failures finished after the failure that is watched: none, or
\* as many as ListRecentFailures returns.
Crowds == {0, FailureLimit}

\* The k failures of the crowd: attempts of job 1 that used up its retries,
\* finished at t.
Crowd(k, t) == [i \in 1..k |->
                  [FailedRow(i + 1, 1, JobTable[1].max_retries, "n1", t)
                       EXCEPT !.scheduled_at = i]]

\* A scheduler that has just won the election over a store that holds one
\* failure, of any job and any attempt, finished one reconcile interval
\* ago, and a crowd of failures finished since; its reconcile ticker is
\* about to fire.
InitStarve ==
    /\ now = ReconcileInterval
    /\ reconcileDue = [r \in Replicas |-> r = "s1"]
    /\ leader = "s1"
    /\ nextRunAt = [j \in Jobs |->
                       IF ScheduleParses(j) THEN CronNext(j, ReconcileInterval)
                       ELSE 0]
    /\ \E j \in Jobs, a \in 1..MaxAttempt, k \in Crowds :
           execs = <<FailedRow(1, j, a, "n1", 0)>>
                       \o Crowd(k, ReconcileInterval)
    /\ stream = <<>>
    /\ groupPos = Null
    /\ pel = {}
    /\ activeNodes = {"n1"}
    /\ rpc = [r \in Replicas |-> IF r = "s1" THEN "idle" ELSE "campaign"]
    /\ lead = [r \in Replicas |-> NoLeader]
    /\ tnow = [r \in Replicas |-> 0]
    /\ w = [r \in Replicas |-> [j \in Jobs |-> NoWorker]]
    /\ rfail = [r \in Replicas |-> <<>>]
    /\ epc = [n \in Nodes |-> "start"]
    /\ emsg = [n \in Nodes |-> 0]
    /\ faults = MaxFaults
    /\ apiCalls = MaxApiCalls
    /\ exhausted = {}
    /\ AuxInit

\* The reconcile ticker fires again once Run is back at its select after a
\* pass, for as long as the store holds a failure inside the look-back
\* window.
TickBetweenPasses ==
    /\ rpc["s1"] = "idle"
    /\ ~reconcileDue["s1"]
    /\ \E i \in DOMAIN execs :
          /\ execs[i].status = ExecutionFailed
          /\ execs[i].completed_at >= now - LookBack
    /\ now' = now + ReconcileInterval
    /\ reconcileDue' = [r \in Replicas |-> rpc[r] # "campaign"]
    /\ UNCHANGED <<leader, nextRunAt, execs, queueVars, activeNodes, schedVars,
                   execVars, faults, apiCalls, exhausted, auxVars>>

NextStarve ==
    \/ TickBetweenPasses
    \/ ReconcileStep({"s1"})

SpecStarve == InitStarve /\ [][NextStarve]_vars

\* --------------------------------------------------- the store on its own
\* The executions table holding one PENDING row, no scheduler or executor
\* running.
InitStore ==
    /\ now = 0
    /\ reconcileDue = [r \in Replicas |-> FALSE]
    /\ leader = NoLeader
    /\ nextRunAt = [j \in Jobs |-> Null]
    /\ execs = <<NewExecution(1, 1, 0, 0, 0, 0)>>
    /\ stream = <<>>
    /\ groupPos = Null
    /\ pel = {}
    /\ activeNodes = {}
    /\ rpc = [r \in Replicas |-> "campaign"]
    /\ lead = [r \in Replicas |-> NoLeader]
    /\ tnow = [r \in Replicas |-> 0]
    /\ w = [r \in Replicas |-> [j \in Jobs |-> NoWorker]]
    /\ rfail = [r \in Replicas |-> <<>>]
    /\ epc = [n \in Nodes |-> "start"]
    /\ emsg = [n \in Nodes |-> 0]
    /\ faults = MaxFaults
    /\ apiCalls = MaxApiCalls
    /\ exhausted = {}
    /\ AuxInit

\* A client calls ExecutionStore.UpdateRunState(id, node, time.Now()).
CallUpdateRunState(id, node) ==
    /\ execs' = UpdateRunState(execs, id, node, now)
    /\ UNCHANGED <<now, reconcileDue, leader, nextRunAt, queueVars, activeNodes,
                   schedVars, execVars, faults, apiCalls, exhausted, auxVars>>

\* A client calls ExecutionStore.UpdateResult(id, status, code, uri).
CallUpdateResult(id, status, code) ==
    /\ execs' = UpdateResult(execs, id, status, code, now)
    /\ UNCHANGED <<now, reconcileDue, leader, nextRunAt, queueVars, activeNodes,
                   schedVars, execVars, faults, apiCalls, exhausted, auxVars>>

\* The store's clients call it in any order while the clock moves.
NextStore ==
    \/ Tick
    \/ \E id \in 1..MaxExecs, n \in NodeIds : CallUpdateRunState(id, n)
    \/ \E id \in 1..MaxExecs, st \in Terminal, code \in {-1, 0, 1} :
           CallUpdateResult(id, st, code)

SpecStore == InitStore /\ [][NextStore]_vars

\* ------------------------------------------------- errors of a whole tick
\* Where Core.Run is after a tick-level error was logged: `continue`, `break`
\* out of the drain loop, or the end of the case; each leads back to the
\* select.
OnTickErrorReturn == "stopped"

OnTickError == "idle"

\* case <-ticker.C: election.Leader returns an error.
LeaderError(r) ==
    /\ rpc[r] = "idle"
    /\ MayFail
    /\ faults' = faults + 1
    /\ rpc' = [rpc EXCEPT ![r] = OnTickError]
    /\ UNCHANGED <<now, reconcileDue, leader, nextRunAt, execs, queueVars,
                   activeNodes, lead, tnow, w, rfail, execVars, apiCalls,
                   exhausted, auxVars>>

\* case <-reconcileTicker.C: election.Leader returns an error.
ReconcileLeaderError(r) ==
    /\ rpc[r] = "idle"
    /\ reconcileDue[r]
    /\ MayFail
    /\ faults' = faults + 1
    /\ reconcileDue' = [reconcileDue EXCEPT ![r] = FALSE]
    /\ rpc' = [rpc EXCEPT ![r] = OnTickError]
    /\ UNCHANGED <<now, leader, nextRunAt, execs, queueVars, activeNodes, lead,
                   tnow, w, rfail, execVars, apiCalls, exhausted, auxVars>>

\* PollAndSchedule: ListDueJobs returns an error, Run leaves the drain loop.
PollError(r) ==
    /\ rpc[r] = "poll"
    /\ MayFail
    /\ faults' = faults + 1
    /\ rpc' = [rpc EXCEPT ![r] = OnTickError]
    /\ lead' = [lead EXCEPT ![r] = NoLeader]
    /\ UNCHANGED <<now, reconcileDue, leader, nextRunAt, execs, queueVars,
                   activeNodes, tnow, w, rfail, execVars, apiCalls, exhausted,
                   auxVars>>

\* Core.Reconcile: GetActiveNodes or MarkOrphansAsFailed returns an error,
\* Reconcile returns it and Run logs it.
ReconcileError(r) ==
    /\ rpc[r] = "reconcile"
    /\ MayFail
    /\ faults' = faults + 1
    /\ rpc' = [rpc EXCEPT ![r] = OnTickError]
    /\ lead' = [lead EXCEPT ![r] = NoLeader]
    /\ UNCHANGED <<now, reconcileDue, leader, nextRunAt, execs, queueVars,
                   activeNodes, tnow, w, rfail, execVars, apiCalls, exhausted,
                   auxVars>>

\* updateNextRun: store.UpdateNextRun returns an error, which is logged.
UpdateError(r, j) ==
    /\ w[r][j].pc = "update"
    /\ ScheduleParses(j)
    /\ MayFail
    /\ faults' = faults + 1
    /\ w' = [w EXCEPT ![r][j].pc = "done", ![r][j].out = "update_error"]
    /\ UNCHANGED <<now, reconcileDue, leader, nextRunAt, execs, queueVars,
                   activeNodes, rpc, lead, tnow, rfail, execVars, apiCalls,
                   exhausted, auxVars>>

\* One scheduler whose store holds two active jobs due in the same batch
\* (job 1, and job 3 whose schedule does not parse), with store, queue,
\* election and predictor errors.
InitFaults == InitWith(0, 0, MaxApiCalls, 0)

TickError(r) ==
    \/ LeaderError(r)
    \/ ReconcileLeaderError(r)
    \/ PollError(r)
    \/ ReconcileError(r)

NextFaults ==
    \/ Tick
    \/ Campaign("s1")
    \/ DispatchStep({"s1"})
    \/ \E j \in Jobs : UpdateError("s1", j)
    \/ ReconcileTick("s1")
    \/ Reconcile("s1")
    \/ TickError("s1")

SpecFaults == InitFaults /\ [][NextFaults]_vars

\* ------------------------------------------ the node registry out of reach
\* EtcdCoordinator.GetActiveNodes: the node ids under /nodes/, or no list
\* and an error when the Get fails.
GetActiveNodes(err) ==
    IF err THEN [nodes |-> {}, err |-> TRUE]
    ELSE [nodes |-> activeNodes, err |-> FALSE]

\* Core.Reconcile going on to MarkOrphansAsFailed whatever GetActiveNodes
\* returned.
AfterGetActiveNodesGoOn(err) == "mark"

\* Core.Reconcile after GetActiveNodes: an error is returned to Run.
AfterGetActiveNodes(err) == IF err THEN "return" ELSE "mark"

\* Core.Reconcile in a tick whose GetActiveNodes fails.
NodesError(r) ==
    /\ rpc[r] = "reconcile"
    /\ MayFail
    /\ faults' = faults + 1
    /\ LET res == GetActiveNodes(TRUE) IN
         IF AfterGetActiveNodes(res.err) = "return"
         THEN /\ rpc' = [rpc EXCEPT ![r] = OnTickError]
              /\ lead' = [lead EXCEPT ![r] = NoLeader]
              /\ UNCHANGED <<execs, rfail>>
         ELSE /\ execs' = MarkOrphansAsFailed(execs, res.nodes, now)
              /\ LET fs == ListRecentFailures(execs', now - LookBack,
                                              FailureLimit) IN
                   /\ rfail' = [rfail EXCEPT ![r] = fs]
                   /\ rpc' = [rpc EXCEPT ![r] =
                                IF fs = <<>> THEN "idle" ELSE "retrying"]
                   /\ lead' = [lead EXCEPT ![r] =
                                 IF fs = <<>> THEN NoLeader ELSE @]
    /\ UNCHANGED <<now, reconcileDue, leader, nextRunAt, queueVars,
                   activeNodes, tnow, w, execVars, apiCalls, exhausted,
                   auxVars>>

\* The reconcile ticks of a scheduler over a store left by earlier runs,
\* with a registry that may fail to answer.
InitRegistry == InitReapWith(0)

NextRegistry ==
    \/ Tick
    \/ ReconcileStep({"s1"})
    \/ NodesError("s1")

SpecRegistry == InitRegistry /\ [][NextRegistry]_vars

\* --------------------------------------------------- scheduler shutdown
\* The calls a dispatch goroutine can be in.
StoreCalls == {"create", "push", "update"}

\* main: a signal arrives on sigChan and cancel() is called.  Run returns
\* at its next select; a goroutine that is inside a store or queue call
\* when the context is cancelled may still see that call carried out, and
\* every call begun afterwards fails on the cancelled context.
Signal(r) ==
    /\ shut[r].phase = "running"
    /\ rpc[r] # "campaign"
    /\ shut' = [shut EXCEPT ![r] =
                  [phase |-> "canceled",
                   calls |-> [j \in Jobs |-> w[r][j].pc],
                   pass  |-> rpc[r]]]
    /\ UNCHANGED <<baseVars, breakerVars, rl, poolVars>>

\* main: election.Resign gives the leader key up; main does not wait for the
\* goroutine of Run.
Resign(r) ==
    /\ shut[r].phase = "canceled"
    /\ shut' = [shut EXCEPT ![r].phase = "resigned"]
    /\ leader' = IF leader = r THEN NoLeader ELSE leader
    /\ UNCHANGED <<now, reconcileDue, nextRunAt, execs, queueVars, activeNodes,
                   schedVars, execVars, faults, apiCalls, exhausted,
                   breakerVars, rl, poolVars>>

\* main returns: the deferred Close calls run and the process ends.
Exit(r) ==
    /\ shut[r].phase = "resigned"
    /\ shut' = [shut EXCEPT ![r].phase = "exited"]
    /\ UNCHANGED <<baseVars, breakerVars, rl, poolVars>>

\* The process of r is still there after cancel().
Stopping(r) == shut[r].phase \in {"canceled", "resigned"}

\* The call a dispatch goroutine was in when the context was cancelled is
\* carried out.
CallInFlight(r, j) ==
    /\ Stopping(r)
    /\ shut[r].calls[j] \in StoreCalls
    /\ w[r][j].pc = shut[r].calls[j]
    /\ \/ Create(r, j)
       \/ Push(r, j)
       \/ Update(r, j)

\* The MarkOrphansAsFailed of the reconcile pass that was running when the
\* context was cancelled is carried out.
PassInFlight(r) ==
    /\ Stopping(r)
    /\ shut[r].pass = "reconcile"
    /\ Reconcile(r)

\* One scheduler from its election to the end of its process.
Running(r) == shut[r].phase = "running"

\* The ticks of Run while the context is live.
LiveDispatch(r) == Running(r) /\ DispatchStep({r})

LiveReconcile(r) == Running(r) /\ ReconcileStep({r})

NextShutdown ==
    \/ Tick
    \/ Campaign("s1")
    \/ LiveDispatch("s1")
    \/ LiveReconcile("s1")
    \/ Signal("s1")
    \/ Resign("s1")
    \/ \E j \in Jobs : CallInFlight("s1", j)
    \/ PassInFlight("s1")
    \/ Exit("s1")

InitShutdown == InitAt(0, MaxFaults, MaxApiCalls)

SpecShutdown == InitShutdown /\ [][NextShutdown]_vars

\* --------------------------------------------------- the executor's pool
\* runtime.NumCPU() of the executor's host.
NumCPU == 2

\* What happens to one command: how the process ended ("nostart": cmd.Start
\* failed, "exited": it ended by itself with code exit, "killed": the
\* context's kill ended it), what ctx.Err() of the run context is when Run
\* looks at it, and whether Wait handed on the context's error for a process
\* that had exited by itself with 0 as the context ended.  The run context is
\* the root context with a timeout: it is Canceled only when the root is,
\* and live only while the root is.
Circumstances(root) ==
    {c \in [how : {"nostart", "exited", "killed"}, exit : {0, 1, 2},
            ctxerr : {"none", "deadline", "canceled"}, waiterr : BOOLEAN] :
        /\ c.ctxerr = "canceled" => root = "canceled"
        /\ c.ctxerr = "none" => root = "live"
        /\ c.how # "exited" => c.exit = 0
        /\ c.how = "killed" => c.ctxerr # "none"
        /\ c.waiterr => c.how = "exited" /\ c.exit = 0 /\ c.ctxerr # "none"}

\* ShellRunner.Run: the ExitCode of the result.
ShellRun(c) ==
    LET fromErr == CASE c.how = "nostart" -> -1
                     [] c.how = "killed"  -> -1
                     [] c.waiterr         -> -1
                     [] OTHER             -> c.exit
    IN  IF c.ctxerr = "deadline" /\ fromErr = 0 THEN -1 ELSE fromErr

NoRun == [how |-> "nostart", exit |-> 0, ctxerr |-> "none", waiterr |-> FALSE]

Task(pc) == [pc |-> pc, in |-> NoRun, status |-> ExecutionPending, code |-> 0]

Without(seq, k) == [i \in 1..(Len(seq) - 1) |-> IF i < k THEN seq[i] ELSE seq[i + 1]]

\* The semaphore channel of capacity NumCPU: a send blocks while it is full.
SemNeverFull(s) == FALSE

SemFull(s) == s >= NumCPU

\* Start's loop, select: return once the context is done, else go on.
LoopSelect ==
    /\ loop = "select"
    /\ loop' = IF ctx = "canceled" THEN "stopped" ELSE "acquire"
    /\ UNCHANGED <<baseVars, shut, breakerVars, rl, ctx, sem, tasks>>

\* sem <- struct{}{}
LoopAcquire ==
    /\ loop = "acquire"
    /\ ~SemFull(sem)
    /\ sem' = sem + 1
    /\ loop' = "spawn"
    /\ UNCHANGED <<baseVars, shut, breakerVars, rl, ctx, tasks>>

\* go func() { defer func() { <-sem }(); e.consumeOne(ctx) }()
LoopSpawn ==
    /\ loop = "spawn"
    /\ tasks' = Append(tasks, Task("pop"))
    /\ loop' = "select"
    /\ UNCHANGED <<baseVars, shut, breakerVars, rl, ctx, sem>>

\* consumeOne: Pop returns a message and UpdateRunState is called, or Pop
\* returns nothing or an error and consumeOne sleeps and returns.
ConsumePop(k) ==
    /\ k \in DOMAIN tasks
    /\ tasks[k].pc = "pop"
    /\ \E got \in BOOLEAN :
           tasks' = [tasks EXCEPT ![k].pc = IF got THEN "run" ELSE "returned"]
    /\ UNCHANGED <<baseVars, shut, breakerVars, rl, ctx, sem, loop>>

\* consumeOne: the runner returns; the status follows from the exit code.
ConsumeRun(k) ==
    /\ k \in DOMAIN tasks
    /\ tasks[k].pc = "run"
    /\ \E c \in Circumstances(ctx) :
           tasks' = [tasks EXCEPT ![k] =
                        [pc |-> "report", in |-> c,
                         status |-> ResultStatus(ShellRun(c)),
                         code |-> ShellRun(c)]]
    /\ UNCHANGED <<baseVars, shut, breakerVars, rl, ctx, sem, loop>>

\* consumeOne: UpdateResult and Ack, then it returns.
ConsumeReport(k) ==
    /\ k \in DOMAIN tasks
    /\ tasks[k].pc = "report"
    /\ tasks' = [tasks EXCEPT ![k] = Task("returned")]
    /\ UNCHANGED <<baseVars, shut, breakerVars, rl, ctx, sem, loop>>

\* The goroutine's deferred <-sem, after consumeOne has returned.
ConsumeReturn(k) ==
    /\ k \in DOMAIN tasks
    /\ tasks[k].pc = "returned"
    /\ sem' = sem - 1
    /\ tasks' = Without(tasks, k)
    /\ UNCHANGED <<baseVars, shut, breakerVars, rl, ctx, loop>>

\* executor main: SIGINT or SIGTERM cancels the root context.
Shutdown ==
    /\ ctx = "live"
    /\ ctx' = "canceled"
    /\ UNCHANGED <<baseVars, shut, breakerVars, rl, sem, loop, tasks>>

InitPool == InitAt(0, 0, 0)

NextPool ==
    \/ LoopSelect
    \/ LoopAcquire
    \/ LoopSpawn
    \/ \E k \in 1..NumCPU : ConsumePop(k)
    \/ \E k \in 1..NumCPU : ConsumeRun(k)
    \/ \E k \in 1..NumCPU : ConsumeReport(k)
    \/ \E k \in 1..NumCPU : ConsumeReturn(k)
    \/ Shutdown

SpecPool == InitPool /\ [][NextPool]_vars

\* ------------------------------------------------------------ properties
\* The queue holds a message for the invocation of job j scheduled at t.
Pushed(j, t) ==
    \E k \in DOMAIN stream : stream[k].job_id = j /\ stream[k].scheduled_at = t

\* The store holds the execution with id x.
Stored(x) == \E i \in DOMAIN execs : execs[i].id = x

\* The queue holds the message of the execution with id x.
Queued(x) == \E k \in DOMAIN stream : stream[k].id = x

\* The instants of the horizon at which some job recurs.
DueTimes ==
    {t \in 0..(MaxTicks * ReconcileInterval) :
        \E j \in Jobs : ScheduleParses(j) /\ t % JobTable[j].period = 0}

\* C1: a dispatch or reconcile tick of a replica to which the election did
\* not answer the replica's own value performs none of create_execution,
\* push, update_next_run, mark_orphans and retry: no step of a tick body is
\* taken by a replica r whose leader query returned something else than r.
OnlyLeaderActs ==
    [][\A r \in Replicas :
          lead[r] # r =>
              /\ \A j \in Jobs : ~(Create(r, j) \/ Push(r, j) \/ Update(r, j))
              /\ ~(Reconcile(r) \/ RetryOne(r))]_vars

\* C2: no two executions of the store share (job_id, scheduled_at), whoever
\* created them (dispatch, retry engine, manual trigger): a create that
\* collides with a stored execution is rejected and stores nothing.
UniqueJobScheduled ==
    \A i, k \in DOMAIN execs :
        (execs[i].job_id = execs[k].job_id
            /\ execs[i].scheduled_at = execs[k].scheduled_at) => i = k

\* A dispatch found its (job_id, scheduled_at) taken by a manual trigger or
\* an earlier dispatch and was rejected.
DuplicateRejected ==
    \E r \in Replicas, j \in Jobs :
        /\ w[r][j].out = "conflict"
        /\ \E i \in DOMAIN execs : /\ execs[i].job_id = j
                                   /\ execs[i].scheduled_at = w[r][j].nra

\* C3: an execution whose status is SUCCESS, FAILED or CANCELLED keeps that
\* status in every later step, whatever update_run_state, update_result,
\* mark_orphans_as_failed or cancel is applied to it.
TerminalIsFinal ==
    [][\A i \in DOMAIN execs :
          execs[i].status \in Terminal => execs'[i].status = execs[i].status]_vars

\* C4: a status changes only along PENDING -> RUNNING, RUNNING -> SUCCESS,
\* RUNNING -> FAILED, PENDING -> CANCELLED, RUNNING -> CANCELLED; an
\* execution never goes from PENDING straight to SUCCESS or FAILED, also when
\* the executor's update_run_state failed.
NoResultWhilePending ==
    [][\A i \in DOMAIN execs :
          execs[i].status = ExecutionPending =>
              execs'[i].status \notin {ExecutionSuccess, ExecutionFailed}]_vars

\* C5: no due invocation is lost: once an active job is due at t, a message
\* for (job, t) is eventually in the queue, also after a transient error of
\* create_execution or push (or the invocation is skipped by advancing
\* next_run_at past t, as the predictor's ABORT does).
NoInvocationLost ==
    \A j \in Jobs, t \in DueTimes :
        (JobTable[j].status = JobStatusActive /\ nextRunAt[j] = t /\ now >= t)
            ~> (Pushed(j, t) \/ nextRunAt[j] > t)

\* C6: when two replicas both dispatch the same due job, the store holds at
\* most one execution and the queue at most one message for that
\* (job_id, scheduled_at).
AtMostOneDispatch ==
    /\ \A i, k \in DOMAIN execs :
          (execs[i].job_id = execs[k].job_id
              /\ execs[i].scheduled_at = execs[k].scheduled_at) => i = k
    /\ \A i, k \in DOMAIN stream :
          (stream[i].job_id = stream[k].job_id
              /\ stream[i].scheduled_at = stream[k].scheduled_at) => i = k

\* Both replicas dispatched job j for the same next_run_at: one recorded and
\* pushed it, the other was rejected.
BothDispatched ==
    \E r1, r2 \in Replicas, j \in Jobs :
        /\ r1 # r2
        /\ w[r1][j].out \in {"pushed", "advanced"}
        /\ w[r2][j].out = "conflict"
        /\ w[r1][j].nra = w[r2][j].nra

\* C7: a dispatch does create_execution, then push, then update_next_run:
\* every message in the queue is of an execution in the store, a dispatch
\* pushes only what it has stored, and it advances next_run_at only once its
\* message is in the queue; after a failed push it stops without advancing.
CreatePushUpdate ==
    /\ \A k \in DOMAIN stream : Stored(stream[k].id)
    /\ \A r \in Replicas, j \in Jobs :
          /\ w[r][j].pc = "push" => Stored(w[r][j].exec)
          /\ w[r][j].pc = "update" => Stored(w[r][j].exec) /\ Queued(w[r][j].exec)
          /\ w[r][j].out = "advanced" => Queued(w[r][j].exec)
          /\ w[r][j].out = "push_error" =>
                 w[r][j].pc = "done" /\ ~Queued(w[r][j].exec)

\* One dispatch went all the way: its message is in the queue and it has
\* advanced next_run_at.
AdvancedAfterPush ==
    \E r \in Replicas, j \in Jobs :
        /\ w[r][j].out = "advanced"
        /\ nextRunAt[j] > w[r][j].nra
        /\ Pushed(j, w[r][j].nra)

\* The executions of the retry chain that started with the dispatch `root`.
Chain(root) == {i \in DOMAIN execs : execs[i].root = root}

\* The retries made for the failure f.
RetriesOf(f) == {i \in DOMAIN execs : execs[i].src = f}

\* C8: for a job with max_retries = N a retry chain (the original execution
\* and all its retries) never holds more than N + 1 executions.
ChainBounded ==
    \A i \in DOMAIN execs :
        Cardinality(Chain(i)) <= JobTable[execs[i].job_id].max_retries + 1

\* C9: each FAILED execution is the source of at most one retry.
OneRetryPerFailure ==
    \A f \in DOMAIN execs : Cardinality(RetriesOf(f)) <= 1

\* C10: with max_retries = N and a command that always fails the attempts
\* 1 .. N + 1 come to exist and no attempt N + 2: the retry engine makes no
\* attempt beyond N + 1 and gives a failure up only at attempt N + 1.
AttemptsUpToLimit ==
    /\ \A i \in DOMAIN execs :
          execs[i].attempt <= JobTable[execs[i].job_id].max_retries + 1
    /\ \A f \in exhausted :
          execs[f].attempt >= JobTable[execs[f].job_id].max_retries + 1

\* C11: a RUNNING execution whose node is absent from the live nodes is
\* FAILED with exit_code -1 by the end of the leader's reconcile pass: the
\* code reaps it in the first pass that finds the node absent, so no
\* execution stays RUNNING over two consecutive passes that both miss its
\* node.
OrphanReapedInPass ==
    [][\A r \in Replicas :
          Reconcile(r) =>
              \A i \in DOMAIN execs :
                  (execs[i].status = ExecutionRunning
                      /\ execs[i].node_id \notin activeNodes)
                  => (execs'[i].status = ExecutionFailed
                         /\ execs'[i].exit_code = -1)]_vars

\* An execution that was claimed by a node has been reaped.
OrphanReaped ==
    \E i \in DOMAIN execs :
        /\ execs[i].status = ExecutionFailed
        /\ execs[i].exit_code = -1
        /\ execs[i].node_id # NoNode

\* C12: mark_orphans_as_failed(active) sets to FAILED, exit_code -1 and
\* completed_at = now exactly the executions that are RUNNING on a node not
\* in active (every RUNNING one when active is empty), returns their number
\* and leaves every other execution as it was.
ReapsExactlyOrphans ==
    [][\A r \in Replicas :
          Reconcile(r) =>
              /\ \A i \in DOMAIN execs :
                    IF /\ execs[i].status = ExecutionRunning
                       /\ (activeNodes = {} \/ execs[i].node_id \notin activeNodes)
                    THEN execs'[i] = [execs[i] EXCEPT
                                        !.status = ExecutionFailed,
                                        !.exit_code = -1,
                                        !.completed_at = now]
                    ELSE execs'[i] = execs[i]
              /\ OrphansReaped(execs, activeNodes)
                    = Cardinality({i \in DOMAIN execs : execs'[i] # execs[i]})]_vars

\* One execution was reaped while another, RUNNING on a live node, was left
\* alone.
ReapedBesideLive ==
    \E i, k \in DOMAIN execs :
        /\ execs[i].status = ExecutionFailed
        /\ execs[i].exit_code = -1
        /\ execs[k].status = ExecutionRunning
        /\ execs[k].node_id \in activeNodes
        /\ rpc["s1"] # "reconcile"
        /\ ~reconcileDue["s1"]

\* C13: every write of next_run_at of an ACTIVE job (dispatch, predictor
\* abort, API update) that changes the value stores a strictly greater one.
NextRunIncreases ==
    [][\A j \in Jobs :
          (JobTable[j].status = JobStatusActive /\ nextRunAt'[j] # nextRunAt[j])
          => nextRunAt'[j] > nextRunAt[j]]_vars

\* The ACTIVE jobs whose next_run_at is at or before t.
DueAt(t) ==
    {j \in Jobs : /\ JobTable[j].status = JobStatusActive
                  /\ nextRunAt[j] # Null
                  /\ nextRunAt[j] <= t}

\* C14: the dispatch tick never creates an Execution, pushes a message or
\* advances next_run_at for a job that is not ACTIVE; list_due_jobs returns
\* exactly the ACTIVE jobs with next_run_at <= now (equality included),
\* oldest next_run_at first, cut at the limit; and the tick starts a
\* dispatch for exactly the jobs listed.
OnlyActiveDueDispatched ==
    /\ [](\A j \in Jobs :
            JobTable[j].status # JobStatusActive =>
                /\ \A i \in DOMAIN execs : execs[i].job_id # j
                /\ \A k \in DOMAIN stream : stream[k].job_id # j
                /\ nextRunAt[j] = CronNext(j, -1)
                /\ \A r \in Replicas : w[r][j].pc = "none")
    /\ [](\A l \in 0..Cardinality(Jobs) :
            LET jobs == ListDueJobs(now, l)
            IN  /\ Len(jobs) = Min(l, Cardinality(DueAt(now)))
                /\ \A k \in DOMAIN jobs : jobs[k] \in DueAt(now)
                /\ \A k, m \in DOMAIN jobs : k < m =>
                       /\ jobs[k] # jobs[m]
                       /\ nextRunAt[jobs[k]] <= nextRunAt[jobs[m]]
                /\ \A k \in DOMAIN jobs :
                       \A j \in DueAt(now) \ {jobs[m] : m \in DOMAIN jobs} :
                           nextRunAt[jobs[k]] <= nextRunAt[j])
    /\ [][\A r \in Replicas :
            (rpc[r] = "poll" /\ rpc'[r] # "poll") =>
                \A j \in Jobs : w'[r][j].pc # "none" <=> j \in DueAt(now)]_vars

\* A tick lists two due jobs, the older first, one of them due exactly now,
\* while the paused and the archived job, whose next_run_at are also in the
\* past, are left out.
DueNowListed ==
    /\ ListDueJobs(now, BatchLimit) = <<3, 1>>
    /\ nextRunAt[1] = now
    /\ nextRunAt[2] <= now
    /\ nextRunAt[4] # Null
    /\ nextRunAt[4] <= now
    /\ rpc["s1"] = "dispatching"
    /\ tnow["s1"] = now
    /\ w["s1"][1].pc # "none"
    /\ w["s1"][3].pc # "none"
    /\ w["s1"][2].pc = "none"
    /\ w["s1"][4].pc = "none"

\* C15: for a due job whose recurrence expression does not parse the
\* dispatch tick creates no Execution and pushes no message, and leaves its
\* next_run_at as it is.
UnparsableSkipped ==
    /\ [](\A j \in Jobs :
            ~ScheduleParses(j) =>
                /\ \A i \in DOMAIN execs : execs[i].job_id # j
                /\ \A k \in DOMAIN stream : stream[k].job_id # j)
    /\ [][\A j \in Jobs :
            ~ScheduleParses(j) => nextRunAt'[j] = nextRunAt[j]]_vars

\* C16: a dispatch goroutine whose create_execution reported a duplicate
\* still calls update_next_run: when the goroutines of its tick are joined,
\* the job is no longer due at the tick's time.
ConflictStillAdvances ==
    [][\A r \in Replicas :
          Join(r) =>
              \A j \in Jobs :
                  (w[r][j].out = "conflict" /\ ScheduleParses(j))
                  => nextRunAt[j] > tnow[r]]_vars

\* C17: the drain loop of a dispatch tick ends: a scheduler that is polling
\* gets back to waiting on its tickers.
DrainEnds ==
    \A r \in Replicas : (rpc[r] = "poll") ~> (rpc[r] = "idle")

\* C18: when the predictor answers ABORT for a due job, the goroutine
\* creates no Execution and pushes no message, advances next_run_at to the
\* next occurrence after the tick's now, and ends.
AbortSkipsAndAdvances ==
    /\ [][\A r \in Replicas, j \in Jobs :
            (w[r][j].pc = "create" /\ w'[r][j].pred = "ABORT") =>
                /\ execs' = execs
                /\ stream' = stream
                /\ w'[r][j].pc = "done"
                /\ ScheduleParses(j) =>
                       /\ nextRunAt'[j] = CronNext(j, tnow[r])
                       /\ nextRunAt'[j] > tnow[r]]_vars
    /\ [](\A r \in Replicas, j \in Jobs :
            w[r][j].pred = "ABORT" =>
                (w[r][j].pc = "done" /\ w[r][j].out = "aborted"))

\* A goroutine was stopped by the predictor and its job is no longer due.
AbortedAndAdvanced ==
    \E r \in Replicas, j \in Jobs :
        /\ w[r][j].pred = "ABORT"
        /\ w[r][j].out = "aborted"
        /\ w[r][j].nra <= tnow[r]
        /\ nextRunAt[j] > tnow[r]
        /\ \A i \in DOMAIN execs :
               ~(execs[i].job_id = j /\ execs[i].scheduled_at = w[r][j].nra)

\* C19: when the predictor call fails (error, timeout, status other than
\* 200) the job is dispatched as without a predictor: the Execution is
\* created, its message is pushed and next_run_at is advanced.
PredictorErrorFailsOpen ==
    /\ [][\A r \in Replicas, j \in Jobs :
            (w[r][j].pc = "create" /\ w'[r][j].pred = "error") =>
                /\ nextRunAt' = nextRunAt
                /\ \/ /\ Conflict(execs, j, w[r][j].nra)
                      /\ execs' = execs
                      /\ w'[r][j].out = "conflict"
                   \/ /\ ~Conflict(execs, j, w[r][j].nra)
                      /\ Len(execs') = Len(execs) + 1
                      /\ execs'[Len(execs')].job_id = j
                      /\ execs'[Len(execs')].scheduled_at = w[r][j].nra
                      /\ w'[r][j].pc = "push"]_vars
    /\ [](\A r \in Replicas, j \in Jobs :
            w[r][j].pred = "error" =>
                /\ w[r][j].out # "aborted"
                /\ w[r][j].pc = "done" =>
                       \/ w[r][j].out = "conflict"
                       \/ /\ w[r][j].out = "advanced"
                          /\ \E k \in DOMAIN stream :
                                 /\ stream[k].job_id = j
                                 /\ stream[k].scheduled_at = w[r][j].nra
                          /\ ScheduleParses(j) =>
                                 nextRunAt[j] = CronNext(j, tnow[r]))

\* A goroutine whose predictor call failed has created, pushed and advanced.
DispatchedDespiteError ==
    \E r \in Replicas, j \in Jobs :
        /\ w[r][j].pred = "error"
        /\ w[r][j].out = "advanced"
        /\ \E i \in DOMAIN execs :
               execs[i].job_id = j /\ execs[i].scheduled_at = w[r][j].nra
        /\ \E k \in DOMAIN stream :
               stream[k].job_id = j /\ stream[k].scheduled_at = w[r][j].nra
        /\ nextRunAt[j] > tnow[r]

\* The entries at or before the group's last-delivered id that are not
\* pending: the acknowledged ones, and those older than the group.
Settled == {k \in DOMAIN stream : k <= groupPos /\ k \notin pel}

\* C20: once ack has succeeded for an entry, no later pop by a consumer of
\* the group returns that entry again.
NoRedeliveryAfterAck ==
    [][\A n \in Nodes :
          (emsg'[n] # emsg[n] /\ emsg'[n] # 0) => emsg'[n] \notin Settled]_vars

\* An entry was delivered to a consumer and acknowledged, and the consumer
\* has popped a later entry since.
PoppedAfterAck ==
    \E n \in Nodes, k \in DOMAIN stream :
        /\ k \in Settled
        /\ execs[stream[k].id].node_id = n
        /\ emsg[n] > k

\* C21: an entry popped by a consumer that died before acknowledging it is
\* eventually returned by a pop of a live consumer of the group.
PendingRedelivered ==
    \A k \in 1..MaxExecs :
        (k \in pel /\ \A n \in Nodes : emsg[n] # k)
            ~> (\E n \in Nodes : emsg[n] = k)

\* C22: executions pushed before the consumer group exists are delivered to
\* it: the group, once ensured, starts at the first entry of the stream, so
\* that N pops return the N entries pushed before.
GroupStartsAtFirstEntry ==
    [][(groupPos = Null /\ groupPos' # Null) => groupPos' = 0]_vars

\* C23: whenever a message is acknowledged, the Store record of its
\* Execution is in a terminal status, also when update_result has failed.
TerminalBeforeAck ==
    [][\A n \in Nodes :
          Ack(n) =>
              \A i \in DOMAIN execs :
                  execs[i].id = stream[emsg[n]].id
                  => execs[i].status \in Terminal]_vars

\* The delay of the retry that a step of the retry engine has just created.
RetryDelay == execs'[Len(execs')].scheduled_at - now

\* min(max_interval, initial_interval * 2^a) of the policy as it is stored.
StoredBase(a, policy) ==
    Min(policy.max_interval, policy.initial_interval * (2 ^ a))

\* The same with 5 s and 5 min standing in for an interval the policy does
\* not give.
EffectiveBase(a, policy) ==
    Min(IF policy.max_interval = 0 THEN 300 ELSE policy.max_interval,
        (IF policy.initial_interval = 0 THEN 5 ELSE policy.initial_interval)
            * (2 ^ a))

InitBreaker == InitAt(0, 0, 0)

NextBreaker ==
    \/ Tick
    \/ BeforeRequest
    \/ \E err \in BOOLEAN : AfterRequest(err)
    \/ Reset

SpecBreaker == InitBreaker /\ [][NextBreaker]_vars

\* The configurations a caller may pass to NewCircuitBreaker: every
\* combination of small thresholds, SuccessThreshold above MaxRequests
\* included.
Configs ==
    [FailureThreshold : {1, 2}, SuccessThreshold : {1, 2},
     Timeout : {Timeout}, MaxRequests : {1, 2}]

\* A new breaker of any of these configurations.
InitAnyBreaker ==
    /\ now = 0
    /\ reconcileDue = [r \in Replicas |-> FALSE]
    /\ leader = NoLeader
    /\ nextRunAt = [j \in Jobs |-> Null]
    /\ execs = <<>>
    /\ stream = <<>>
    /\ groupPos = Null
    /\ pel = {}
    /\ activeNodes = {}
    /\ rpc = [r \in Replicas |-> "campaign"]
    /\ lead = [r \in Replicas |-> NoLeader]
    /\ tnow = [r \in Replicas |-> 0]
    /\ w = [r \in Replicas |-> [j \in Jobs |-> NoWorker]]
    /\ rfail = [r \in Replicas |-> <<>>]
    /\ epc = [n \in Nodes |-> "start"]
    /\ emsg = [n \in Nodes |-> 0]
    /\ faults = MaxFaults
    /\ apiCalls = MaxApiCalls
    /\ exhausted = {}
    /\ \E config \in Configs : AuxInitWith(config)

SpecAnyBreaker == InitAnyBreaker /\ [][NextBreaker]_vars

\* ------------------------------------------------ the limiter on its own
\* No scheduler, executor or store activity.
IdleBase ==
    /\ now = 0
    /\ reconcileDue = [r \in Replicas |-> FALSE]
    /\ leader = NoLeader
    /\ nextRunAt = [j \in Jobs |-> Null]
    /\ execs = <<>>
    /\ stream = <<>>
    /\ groupPos = Null
    /\ pel = {}
    /\ activeNodes = {}
    /\ rpc = [r \in Replicas |-> "campaign"]
    /\ lead = [r \in Replicas |-> NoLeader]
    /\ tnow = [r \in Replicas |-> 0]
    /\ w = [r \in Replicas |-> [j \in Jobs |-> NoWorker]]
    /\ rfail = [r \in Replicas |-> <<>>]
    /\ epc = [n \in Nodes |-> "start"]
    /\ emsg = [n \in Nodes |-> 0]
    /\ faults = MaxFaults
    /\ apiCalls = MaxApiCalls
    /\ exhausted = {}

\* Two runs of a new limiter of any configuration.  Client c1 sends the same
\* requests at the same times in both; in run b client c2 sends requests of
\* its own in between, in run a nobody else does.
InitLimiter ==
    /\ IdleBase
    /\ \E lconfig \in LimiterConfigs :
           AuxInitOf(DefaultCircuitBreakerConfig, lconfig)

NextLimiter ==
    \/ Tick
    \/ AllowBoth
    \/ AllowOne("b", "c2")
    \/ Cleanup

SpecLimiter == InitLimiter /\ [][NextLimiter]_vars

\* C30: a new breaker is closed, and a closed breaker opens in the step
\* that records the FailureThreshold-th failure in a row (a recorded
\* success starts the count again) and in no other step; it never goes from
\* closed to half-open.
OpensAtThreshold ==
    /\ cb.state = CircuitClosed
    /\ [][cb.state = CircuitClosed =>
            /\ cb'.state = CircuitOpen <=> streak' = cb.config.FailureThreshold
            /\ cb'.state # CircuitHalfOpen]_vars

\* A breaker that FailureThreshold failures in a row have just opened.
OpenedAtThreshold ==
    /\ cb.state = CircuitOpen
    /\ streak = cb.config.FailureThreshold
    /\ cb.failures = cb.config.FailureThreshold

\* C27: update_result applied to an execution that is already SUCCESS, FAILED
\* or CANCELLED changes nothing: in every step that calls it (the executor's
\* report, the API's cancel) a terminal execution keeps its status, exit_code
\* and completed_at.
ResultWrittenOnce ==
    [][((\E n \in Nodes : Report(n)) \/ (\E i \in 1..MaxExecs : CancelExecution(i)))
          => \A i \in DOMAIN execs :
                 execs[i].status \in Terminal =>
                     /\ execs'[i].status = execs[i].status
                     /\ execs'[i].exit_code = execs[i].exit_code
                     /\ execs'[i].completed_at = execs[i].completed_at]_vars

\* C26: update_run_state called again for an execution and the node that
\* already claimed it leaves the record as the first call wrote it: status
\* RUNNING, the same node_id and the same started_at.
RunStateIdempotent ==
    [][\A id \in 1..MaxExecs, n \in NodeIds :
          (/\ CallUpdateRunState(id, n)
           /\ \E i \in DOMAIN execs : /\ execs[i].id = id
                                      /\ execs[i].node_id = n
                                      /\ execs[i].started_at # Null)
          => \A i \in DOMAIN execs :
                 execs[i].id = id =>
                     /\ execs'[i].status = ExecutionRunning
                     /\ execs'[i].node_id = n
                     /\ execs'[i].started_at = execs[i].started_at]_vars

\* The process's exit code as os/exec gives it: -1 when a signal ended the
\* process or when Wait returned the context's error instead of a status.
ProcessExitCode(c) == IF c.how = "killed" \/ c.waiterr THEN -1 ELSE c.exit

\* C24: the executor reports SUCCESS exactly when the process started, ended
\* with exit code 0 and the run context was neither cancelled nor past its
\* deadline; otherwise it reports FAILED, with exit code -1 after a timeout
\* or a failed start and the process's own exit code in the other cases.
ReportsByExitAndContext ==
    \A k \in DOMAIN tasks :
        tasks[k].pc = "report" =>
            LET c == tasks[k].in
                ok == c.how = "exited" /\ c.exit = 0 /\ c.ctxerr = "none"
            IN  /\ tasks[k].status = ExecutionSuccess <=> ok
                /\ ~ok =>
                      /\ tasks[k].status = ExecutionFailed
                      /\ tasks[k].code =
                             IF c.ctxerr = "deadline" \/ c.how = "nostart"
                             THEN -1 ELSE ProcessExitCode(c)

\* The consumeOne tasks that have not returned.
InFlight == {k \in DOMAIN tasks : tasks[k].pc \in {"pop", "run", "report"}}

\* C25: at most NumCPU consumeOne tasks are in flight (in pop, running a
\* command or reporting), and the semaphore gives a token back only in the
\* step that ends a task that has returned.
PoolBounded ==
    /\ [](Cardinality(InFlight) <= NumCPU)
    /\ [][sem' < sem =>
            \E k \in DOMAIN tasks : /\ tasks[k].pc = "returned"
                                    /\ tasks' = Without(tasks, k)]_vars

\* Every slot taken by a task in flight while Start waits for a token.
PoolFull ==
    /\ Cardinality(InFlight) = NumCPU
    /\ loop = "acquire"
    /\ sem = NumCPU

\* A step of the dispatch goroutine of job j in replica r.
WorkerStep(r, j) ==
    \/ Create(r, j)
    \/ Push(r, j)
    \/ Update(r, j)
    \/ UpdateError(r, j)

\* C29: within a batch a goroutine's step, failed or not, leaves the other
\* goroutines of the batch as they are, and a goroutine that has not finished
\* can always take its next step, so no job's error keeps another job from
\* being dispatched; and every tick-level error (leader query, list_due_jobs,
\* reconcile) leaves Run at its select, from where the next tick is taken.
ErrorsContained ==
    /\ [][\A r \in Replicas, j \in Jobs :
            WorkerStep(r, j) => \A k \in Jobs \ {j} : w'[r][k] = w[r][k]]_vars
    /\ [](\A j \in Jobs :
            /\ w["s1"][j].pc = "create" => ENABLED Create("s1", j)
            /\ w["s1"][j].pc = "push" => ENABLED Push("s1", j)
            /\ w["s1"][j].pc = "update" => ENABLED Update("s1", j))
    /\ [][\A r \in Replicas : TickError(r) => rpc'[r] = "idle"]_vars
    /\ [](rpc["s1"] = "idle" => ENABLED DispatchTick("s1"))

\* A batch in which the dispatch of job 1 failed (predictor, store or queue
\* error) and job 3, due in the same batch, was pushed all the same.
DispatchedBesideError ==
    /\ rpc["s1"] = "dispatching"
    /\ w["s1"][1].out \in {"create_error", "push_error", "update_error"}
    /\ w["s1"][3].out = "pushed"
    /\ Pushed(3, w["s1"][3].nra)
    /\ faults > 0

\* The breaker is open and its last failure is less than Timeout ago.
OpenAndYoung == cb.state = CircuitOpen /\ now - cb.lastFailure < cb.config.Timeout

\* C31: while the breaker is open and less than Timeout has passed since the
\* last failure, beforeRequest answers ErrCircuitOpen and leaves the struct
\* as it is, and an Execute call made then changes no counter and does not
\* enter the protected function.
RejectsWhileOpen ==
    /\ [](OpenAndYoung => ~Allowed(cb, now) /\ beforeRequest(cb, now) = cb)
    /\ [][OpenAndYoung /\ BeforeRequest =>
            cb' = cb /\ cbCalls' = cbCalls /\ refused']_vars

\* A call has just been refused by an open breaker.
RefusedWhileOpen == OpenAndYoung /\ refused

\* C32: an open breaker whose last failure is Timeout or more ago reports
\* half-open and lets a call through; no more than MaxRequests calls are let
\* through while it is half-open; a success recorded in half-open closes it,
\* with failures, successes and halfOpenRequests at 0, exactly when it is the
\* SuccessThreshold-th; a failure recorded in half-open leaves it open.
HalfOpenProbes ==
    /\ [](cb.state = CircuitOpen /\ now - cb.lastFailure >= cb.config.Timeout
            => /\ currentState(cb, now) = CircuitHalfOpen
               /\ Allowed(cb, now))
    /\ [](admitted <= cb.config.MaxRequests)
    /\ [](currentState(cb, now) = CircuitOpen => cb.successes = 0)
    /\ [][currentState(cb, now) = CircuitHalfOpen /\ AfterRequest(FALSE) =>
            IF cb.successes + 1 = cb.config.SuccessThreshold
            THEN /\ cb'.state = CircuitClosed
                 /\ cb'.failures = 0
                 /\ cb'.successes = 0
                 /\ cb'.halfOpenRequests = 0
            ELSE /\ currentState(cb', now) = CircuitHalfOpen
                 /\ cb'.successes = cb.successes + 1]_vars
    /\ [][currentState(cb, now) = CircuitHalfOpen /\ AfterRequest(TRUE) =>
            currentState(cb', now) = CircuitOpen]_vars

\* A half-open breaker that has let MaxRequests calls through and has just
\* refused the next one.
HalfOpenFull ==
    /\ cb.state = CircuitHalfOpen
    /\ admitted = cb.config.MaxRequests
    /\ refused

\* C40: a half-open breaker with no call in flight lets the next Execute
\* through, whatever its configuration, so that call's result can close or
\* reopen it: the breaker is never left refusing every call with nothing
\* under way that could change its state.
HalfOpenNeverStuck ==
    cb.state = CircuitHalfOpen /\ cbCalls = 0 => Allowed(cb, now)

\* Every bucket of every run.
Buckets ==
    {rl[x].clients[c] : x \in Runs, c \in ClientIds}

\* C33: a bucket never holds less than 0 or more than BurstSize tokens; while
\* no time has passed since a client's bucket was made, its requests are
\* allowed until BurstSize of them were and denied from then on; and a client
\* that was denied is denied again as long as no time passes.
BurstThenDenied ==
    /\ [](\A x \in Runs, c \in ClientIds :
            LET b     == rl[x].clients[c]
                burst == rl[x].config.BurstSize
            IN  b.exists =>
                  /\ b.tokens >= 0
                  /\ b.tokens <= burst * Unit
                  /\ (b.fresh /\ b.lastRefill = now) =>
                        /\ b.granted <= burst
                        /\ ~b.last => b.granted = burst)
    /\ [][\A x \in Runs, c \in ClientIds :
            LET b == rl[x].clients[c] IN
              (/\ b.exists
               /\ b.lastRefill = now
               /\ ~b.last
               /\ rl'[x] = Allow(rl[x], c, now))
              => ~rl'[x].clients[c].last]_vars

\* A client that has used its burst of MaxBurst requests in the instant its
\* bucket was made and has been denied the next one.
BurstUsedUp ==
    \E b \in Buckets :
        /\ b.exists
        /\ b.fresh
        /\ b.lastRefill = now
        /\ b.granted = MaxBurst
        /\ ~b.last

\* C34: the requests of client c1 get the same answers in the run where c2
\* sends requests as in the run where it sends none: after every step c1's
\* bucket, with the answer to its last request, is the same in both runs.
ClientsIndependent ==
    /\ [](rl["a"].clients["c1"] = rl["b"].clients["c1"])
    /\ [][AllowBoth =>
            rl'["a"].clients["c1"].last = rl'["b"].clients["c1"].last]_vars

\* Client c2 has used up its burst and was denied, and c1's request in the
\* same run and instant was allowed.
AllowedBesideDenied ==
    LET b1 == rl["b"].clients["c1"]
        b2 == rl["b"].clients["c2"]
    IN  /\ b2.exists /\ ~b2.last /\ b2.lastRefill = now
        /\ b1.exists /\ b1.last /\ b1.lastRefill = now

\* The executor process n is up: Start has reached the work loop, in which
\* the ticker of the heartbeat goroutine runs too, and it has not stopped.
Heartbeating(n) == epc[n] \notin {"start", "dead"}

\* C35: a reconcile pass never marks FAILED an execution that is RUNNING on
\* an executor which is up and running its heartbeat loop.
LiveNeverReaped ==
    [][\A r \in Replicas, i \in 1..Len(execs) :
            ( /\ Reconcile(r)
              /\ execs[i].status = ExecutionRunning
              /\ execs[i].node_id \in Nodes
              /\ Heartbeating(execs[i].node_id) )
            => execs'[i].status = ExecutionRunning]_vars

\* C36: a retry execution (one made by RetryFailures for a failure) that an
\* executor has set RUNNING was started at or after its scheduled_at.
RetryStartsAfterDelay ==
    \A i \in 1..Len(execs) :
        (execs[i].src # 0 /\ execs[i].started_at # Null)
            => execs[i].started_at >= execs[i].scheduled_at

\* C37: a reconcile tick whose GetActiveNodes fails changes no execution,
\* pushes nothing and lists no failure for a retry; it ends there.
NodesErrorChangesNothing ==
    [][\A r \in Replicas :
          NodesError(r) =>
              /\ execs' = execs
              /\ stream' = stream
              /\ nextRunAt' = nextRunAt
              /\ rfail'[r] = <<>>
              /\ rpc'[r] = "idle"]_vars

\* The first reconcile tick ended on the registry error and an execution
\* RUNNING on a node without a live key is still RUNNING.
OrphanKeptOnError ==
    /\ now = ReconcileInterval
    /\ rpc["s1"] = "idle"
    /\ ~reconcileDue["s1"]
    /\ faults = 1
    /\ Len(execs) = 2
    /\ \E i \in DOMAIN execs :
          /\ execs[i].status = ExecutionRunning
          /\ execs[i].node_id \notin activeNodes

\* C38: a FAILED execution below its job's retry limit has a retry that was
\* created and pushed by the time it leaves the look-back window of
\* RetryFailures, after which no pass lists it any more.
NoFailureStarved ==
    \A f \in DOMAIN execs :
        ( /\ execs[f].status = ExecutionFailed
          /\ ~Exhausted(execs[f].attempt, JobTable[execs[f].job_id].max_retries)
          /\ execs[f].completed_at < now - LookBack )
        => \E i \in DOMAIN execs :
              /\ execs[i].src = f
              /\ \E p \in DOMAIN stream : stream[p].id = execs[i].id

\* C39: once the scheduler process has resigned, it creates no execution,
\* pushes no message, writes no next_run_at and marks no orphan: the
\* executions, the stream and the jobs' next_run_at stay as they were.
NothingAfterResign ==
    [][\A r \in Replicas :
          shut[r].phase \in {"resigned", "exited"} =>
              /\ execs' = execs
              /\ stream' = stream
              /\ nextRunAt' = nextRunAt]_vars

====
